---- MODULE Spec2Model ----
(***************************************************************************)
(* MLSP grid synchronisation: the authoritative server (server.py), the    *)
(* client (client.py, client_gui.py) and an unreliable datagram network    *)
(* between them.                                                           *)
(*                                                                         *)
(* Spec        the protocol: server threads, clients, lossy network.       *)
(* SpecEngine  the state engine alone: handle_acquire_request applied to   *)
(*             arbitrary well-framed ACQUIRE_REQ payloads in any order.    *)
(***************************************************************************)
EXTENDS Integers, Sequences, FiniteSets, TLC

(***************************************************************************)
(* Bounds of the model.                                                    *)
(***************************************************************************)
\* Largest client timestamp carried by an ACQUIRE_REQ (timestamps are 1..MaxTs).
MaxTs == 2
\* Number of ACQUIRE_REQ payloads the engine specification processes.
MaxReqs == 3
\* Cap on snapshot_id: no snapshot is emitted once the counter reaches it.
MaxSnapshotId == 2
\* Cap on the number of datagrams in flight; a datagram sent beyond it is lost.
MaxInFlight == 3
\* Number of ACQUIRE_REQs the clients of the protocol specification send.
MaxClicks == 1
\* Cap on the number of player ids the server allocates.
MaxIds == 2
\* Cap on snapshot_id in the server specification.
MaxServerSnapshotId == 4
\* Largest snapshot id of the SNAPSHOT datagrams fed to the client specification.
MaxRxSnapshotId == 1

\* The grid of the model: the first two cells of row 0 of the GRID_SIZE x
\* GRID_SIZE grid, in the iteration order of the grid dict (row-major).
CellOrder == << <<0, 0>>, <<0, 1>> >>
Cells == {CellOrder[i] : i \in 1..Len(CellOrder)}

\* Client endpoints (host, port), in the order the model iterates over them.
AddrOrder == <<"a", "b">>
Addrs == {AddrOrder[i] : i \in 1..Len(AddrOrder)}

\* Python's None (a payload without "id", an unowned cell).
None == "<None>"
\* str(n) for the player ids the server allocates.
Str(n) == <<"1", "2", "3", "4", "5", "6", "7", "8", "9">>[n]
\* A client cell without the "timestamp" key (client.py builds {"state","owner"}).
NoTimestamp == -1

TsVals == 1..MaxTs
\* "id" values of ACQUIRE_REQ payloads the engine specification draws from.
ReqPids == {"1", "2", None}

VARIABLES
    \* server.py module state
    grid, last_grid, clients, pending_assign, client_last_acked,
    snapshot_id, next_id, is_game_over, pending_acquire_events,
    now,                 \* last value now_ms() returned to the server
    \* client.py module state, one copy per endpoint
    player_id, client_grid, latest_snapshot, snapshot_buffer, game_over,
    applier_running, chunked_snapshots,
    \* network
    net,                 \* datagrams in flight
    out,                 \* datagrams handed to the transport by the last step, in order
    \* history
    processed,           \* ACQUIRE_REQ payloads handled, in order (SpecEngine)
    acked_cells,         \* per endpoint: (cell, value) pairs of snapshots it acked
    late_cells,          \* per endpoint: cells accepted between its INIT and activation
    ids_sent,            \* per endpoint: player ids carried by ASSIGN_IDs sent to it
    allocs,              \* per endpoint: how often next_id was incremented for it
    clicks,              \* number of ACQUIRE_REQs sent by clients
    last_sent,           \* per endpoint: id of the last SNAPSHOT sent to it while
                         \* it was ACTIVE, -1 when there is none
    \* server threads, statement by statement (SpecLock)
    lock,                \* the thread that holds the lock, None when it is free
    pc,                  \* per server thread: the statement it is at
    emitted              \* snapshot ids of the snapshot emissions so far, in order

serverVars == <<grid, last_grid, clients, pending_assign, client_last_acked,
                snapshot_id, next_id, is_game_over, pending_acquire_events, now>>
clientVars == <<player_id, client_grid, latest_snapshot, snapshot_buffer,
                game_over, applier_running, chunked_snapshots>>
histVars == <<processed, acked_cells, late_cells, ids_sent, allocs, clicks>>
lockVars == <<lock, pc, emitted>>
vars == <<serverVars, clientVars, net, out, histVars, last_sent, lockVars>>

\* The threads main() starts, by the function each runs.
Threads == {"receiver", "broadcaster", "resend_acquire_events", "resend_assign_id",
            "update_last_grid_when_safe"}
\* The datagram held by a thread that holds none.
NoMsg == [type |-> "NONE", addr |-> None]
\* A thread between two operations (asleep, or blocked in recvfrom).
Idle == [at |-> "idle", msg |-> NoMsg]
\* No thread is inside an operation and the lock is free.  Every
\* specification but SpecLock runs each operation in one step, from and to
\* this state.
ThreadsIdle ==
    /\ lock = None
    /\ pc = [t \in Threads |-> Idle]
    /\ emitted = <<>>

(***************************************************************************)
(* The state engine: cells and conflict resolution.                        *)
(***************************************************************************)
UnclaimedCell == [state |-> "UNCLAIMED", owner |-> None, timestamp |-> 0]
InitGrid == [c \in Cells |-> UnclaimedCell]
ClientUnclaimed == [state |-> "UNCLAIMED", owner |-> None, timestamp |-> NoTimestamp]
InitClientGrid == [c \in Cells |-> ClientUnclaimed]

\* Mutation of Accepts: no tie-break at all, the last request wins.
AcceptsAlways(old, ts) == TRUE
\* Mutation of Accepts: a request with an equal timestamp also overwrites.
AcceptsOnEqual(old, ts) == old.state = "UNCLAIMED" \/ ts <= old.timestamp
\* server.py:234  old["state"] == "UNCLAIMED" or ts < old["timestamp"]
Accepts(old, ts) == old.state = "UNCLAIMED" \/ ts < old.timestamp

\* Mutation of AcquiredCell: the stored timestamp is not replaced.
AcquiredCellKeepsTs(old, pid, ts) ==
    [state |-> "ACQUIRED", owner |-> pid,
     timestamp |-> IF old.state = "UNCLAIMED" THEN ts ELSE old.timestamp]
\* server.py:235  the value written on accept
AcquiredCell(old, pid, ts) == [state |-> "ACQUIRED", owner |-> pid, timestamp |-> ts]

\* all(c["state"] == "ACQUIRED" for c in grid.values())
AllAcquired(g) == \A c \in Cells : g[c].state = "ACQUIRED"

\* counts: owner -> number of cells it owns
Counts(g) ==
    [o \in {g[c].owner : c \in Cells} |-> Cardinality({c \in Cells : g[c].owner = o})]

\* max(counts, key=counts.get): the first owner, in the dict's insertion order
\* (first appearance in row-major order), whose count is maximal.
Winner(g) ==
    LET cnt == Counts(g)
        best(i) == \A o \in DOMAIN cnt : cnt[o] <= cnt[g[CellOrder[i]].owner]
        first == CHOOSE i \in 1..Len(CellOrder) :
                    best(i) /\ \A j \in 1..(i - 1) : ~best(j)
    IN  g[CellOrder[first]].owner

\* The delta of send_delta_snapshot: cells whose value differs from the baseline.
Delta(g, base) == [c \in {d \in Cells : base[d] # g[d]} |-> g[c]]

(***************************************************************************)
(* Datagrams.  The header's snapshot id is kept only where a receiver      *)
(* reads it (SNAPSHOT); seq_num and the header timestamp are read by the   *)
(* logging code alone and are left out.                                    *)
(***************************************************************************)
InitMsg(a) == [type |-> "INIT", addr |-> a]
AssignIdMsg(a, pid) == [type |-> "ASSIGN_ID", addr |-> a, id |-> pid]
SnapshotMsg(a, sid, full, cells) ==
    [type |-> "SNAPSHOT", addr |-> a, snapshot_id |-> sid, is_full |-> full, grid |-> cells]
AcquireReqMsg(a, pid, cell, ts) ==
    [type |-> "ACQUIRE_REQ", addr |-> a, id |-> pid, cell |-> cell, timestamp |-> ts]
SnapshotAckMsg(a, sid) == [type |-> "SNAPSHOT_ACK", addr |-> a, snapshot_id |-> sid]
GameOverMsg(a, w, sb) == [type |-> "GAME_OVER", addr |-> a, winner |-> w, scoreboard |-> sb]
SnapshotNackMsg(a, sid) == [type |-> "SNAPSHOT_NACK", addr |-> a, last_snapshot |-> sid]
\* A SNAPSHOT datagram whose payload has total_chunks > 1 (SnapshotMsg is the
\* datagram with total_chunks = 1, chunk_index = 0).
SnapshotChunkMsg(a, sid, full, cells, total, idx) ==
    [type |-> "SNAPSHOT_CHUNK", addr |-> a, snapshot_id |-> sid, is_full |-> full,
     grid |-> cells, total_chunks |-> total, chunk_index |-> idx]
AssignIdAckMsg(a) == [type |-> "ASSIGN_ID_ACK", addr |-> a]
AcquireEventMsg(a, cell, owner, eid) ==
    [type |-> "ACQUIRE_EVENT", addr |-> a, cell |-> cell, owner |-> owner, event_id |-> eid]
AcquireAckMsg(a, eid) == [type |-> "ACQUIRE_ACK", addr |-> a, event_id |-> eid]

Range(s) == {s[i] : i \in 1..Len(s)}

\* The elements of sequence s that satisfy Keep, in order.
RECURSIVE SelectIn(_, _)
SelectIn(s, keep) ==
    IF s = <<>> THEN <<>>
    ELSE (IF Head(s) \in keep THEN <<Head(s)>> ELSE <<>>) \o SelectIn(Tail(s), keep)

\* "for cli in clients": the endpoints of set S as a sequence.
AddrSeq(S) == SelectIn(AddrOrder, S)

\* last_sent once the datagrams msgs have been handed to the transport.
LastSentAfter(msgs) ==
    [a \in Addrs |->
        LET idx == {i \in 1..Len(msgs) : msgs[i].type = "SNAPSHOT" /\ msgs[i].addr = a}
        IN  IF a \in clients /\ idx # {}
            THEN CHOOSE k \in {msgs[i].snapshot_id : i \in idx} :
                     \A i \in idx : msgs[i].snapshot_id <= k
            ELSE last_sent[a]]

\* sock.sendto for each datagram of msgs, in order, on top of the datagrams
\* base already in flight.  The transport may lose any of them; what does not
\* fit in the in-flight cap is lost.
Send(base, msgs) ==
    /\ out' = msgs
    /\ last_sent' = LastSentAfter(msgs)
    /\ IF Cardinality(base \cup Range(msgs)) <= MaxInFlight
       THEN net' = base \cup Range(msgs)
       ELSE \E S \in SUBSET Range(msgs) :
                /\ Cardinality(base \cup S) <= MaxInFlight
                /\ net' = base \cup S

(***************************************************************************)
(* Server: snapshot engine.                                                *)
(***************************************************************************)
\* send_delta_snapshot's datagrams for grid g, baseline base, snapshot id sid:
\* nothing when the delta is empty, else one SNAPSHOT per active client (the
\* model's grid fits one datagram, so send_chunked_snapshot emits one part).
DeltaMsgs(g, base, sid) ==
    IF Delta(g, base) = <<>> THEN <<>>
    ELSE [i \in 1..Len(AddrSeq(clients)) |->
             SnapshotMsg(AddrSeq(clients)[i], sid, FALSE, Delta(g, base))]

\* send_game_over's datagrams.
GameOverMsgs(g) ==
    [i \in 1..Len(AddrSeq(clients)) |->
        GameOverMsg(AddrSeq(clients)[i], Winner(g), Counts(g))]

\* The ACQUIRE_EVENT broadcast of an accepted request.
EventMsgs(cell, pid, eid) ==
    [i \in 1..Len(AddrSeq(clients)) |->
        AcquireEventMsg(AddrSeq(clients)[i], cell, pid, eid)]

(***************************************************************************)
(* Server: handle_acquire_request.                                         *)
(***************************************************************************)
\* client_last_acked.get(cli, -1)
LastAcked(cli) ==
    IF cli \in DOMAIN client_last_acked THEN client_last_acked[cli] ELSE -1

\* update_last_grid_when_safe: clients is not empty and min_acked >= snapshot_id - 1
SafeToAdvance ==
    /\ clients # {}
    /\ \A cli \in clients : LastAcked(cli) >= snapshot_id - 1

\* update_last_grid_when_safe takes no lock: between the write of grid[cell]
\* and the read of last_grid in send_delta_snapshot it may have copied the
\* written grid g1 into last_grid.  The baselines the terminal delta can see.
RacedBaselines(g1) == {last_grid} \cup (IF SafeToAdvance THEN {g1} ELSE {})

\* cell, pid, ts: msg.get("cell"), msg.get("id"), msg.get("timestamp", 0).
HandleAcquireRequest(base, cell, pid, ts) ==
    IF cell \notin Cells \/ ~Accepts(grid[cell], ts)
    THEN /\ Send(base, <<>>)
         /\ UNCHANGED <<serverVars, late_cells>>
    ELSE \E eid \in {now, now + 1} :
         LET g1 == [grid EXCEPT ![cell] = AcquiredCell(@, pid, ts)]
             entry == [acks |-> [cli \in clients |-> FALSE],
                       payload |-> [cell |-> cell, owner |-> pid]]
         IN  /\ grid' = g1
             /\ now' = eid
             /\ pending_acquire_events' =
                    [e \in DOMAIN pending_acquire_events \cup {eid} |->
                        IF e = eid THEN entry ELSE pending_acquire_events[e]]
             /\ late_cells' = [a \in Addrs |->
                    IF a \in DOMAIN pending_assign
                    THEN late_cells[a] \cup {cell} ELSE late_cells[a]]
             /\ IF AllAcquired(g1)
                THEN \E b \in RacedBaselines(g1) :
                     /\ is_game_over' = TRUE
                     /\ last_grid' = b
                     /\ snapshot_id' = snapshot_id + 1
                     /\ Send(base, EventMsgs(cell, pid, eid)
                             \o DeltaMsgs(g1, b, snapshot_id)
                             \o GameOverMsgs(g1))
                ELSE /\ Send(base, EventMsgs(cell, pid, eid))
                     /\ UNCHANGED <<is_game_over, snapshot_id, last_grid>>
             /\ UNCHANGED <<clients, pending_assign, client_last_acked, next_id>>

(***************************************************************************)
(* SpecEngine: the state engine fed with arbitrary ACQUIRE_REQ payloads.   *)
(***************************************************************************)
Init ==
    /\ grid = InitGrid
    /\ last_grid = InitGrid
    /\ clients = {}
    /\ pending_assign = <<>>
    /\ client_last_acked = <<>>
    /\ snapshot_id = 0
    /\ next_id = 1
    /\ is_game_over = FALSE
    /\ pending_acquire_events = <<>>
    /\ now = 0
    /\ player_id = [a \in Addrs |-> None]
    /\ client_grid = [a \in Addrs |-> InitClientGrid]
    /\ latest_snapshot = [a \in Addrs |-> -1]
    /\ snapshot_buffer = [a \in Addrs |-> <<>>]
    /\ chunked_snapshots = [a \in Addrs |-> <<>>]
    /\ game_over = [a \in Addrs |-> FALSE]
    /\ applier_running = [a \in Addrs |-> TRUE]
    /\ net = {}
    /\ out = <<>>
    /\ processed = <<>>
    /\ acked_cells = [a \in Addrs |-> {}]
    /\ late_cells = [a \in Addrs |-> {}]
    /\ ids_sent = [a \in Addrs |-> {}]
    /\ allocs = [a \in Addrs |-> 0]
    /\ clicks = 0
    /\ last_sent = [a \in Addrs |-> -1]
    /\ ThreadsIdle

\* The receiver handles one well-framed ACQUIRE_REQ datagram.
EngineRequest(cell, pid, ts) ==
    /\ Len(processed) < MaxReqs
    /\ HandleAcquireRequest(net, cell, pid, ts)
    /\ processed' = Append(processed, [cell |-> cell, id |-> pid, timestamp |-> ts])
    /\ UNCHANGED <<clientVars, acked_cells, ids_sent, allocs, clicks>>

\* A cell key that is not in the grid.
OutOfGrid == <<5, 5>>

EngineNext ==
    \/ \E cell \in Cells, pid \in ReqPids, ts \in TsVals : EngineRequest(cell, pid, ts) /\ UNCHANGED lockVars
    \/ EngineRequest(OutOfGrid, "1", 1) /\ UNCHANGED lockVars

SpecEngine == Init /\ [][EngineNext]_vars

(***************************************************************************)
(* The engine as a function of the request sequence.                       *)
(***************************************************************************)
\* The grid after handle_acquire_request has handled request r on grid g.
ApplyReq(g, r) ==
    IF r.cell \notin Cells \/ ~Accepts(g[r.cell], r.timestamp) THEN g
    ELSE [g EXCEPT ![r.cell] = AcquiredCell(@, r.id, r.timestamp)]

\* The grid after the requests of sequence s, handled in order from InitGrid.
RECURSIVE FinalGrid(_)
FinalGrid(s) ==
    IF s = <<>> THEN InitGrid
    ELSE ApplyReq(FinalGrid(SubSeq(s, 1, Len(s) - 1)), s[Len(s)])

\* Every order of the multiset of requests in sequence s.
Perms(s) ==
    LET n == Len(s)
        bij == {p \in [1..n -> 1..n] : \A i, j \in 1..n : i # j => p[i] # p[j]}
    IN  {[i \in 1..n |-> s[p[i]]] : p \in bij}

\* The positions of the requests of s that name cell c.
ReqsFor(s, c) == {i \in 1..Len(s) : s[i].cell = c}

\* All requests for cell c that carry the smallest timestamp name one owner.
MinTsOwnerUnique(s, c) ==
    \A i, j \in ReqsFor(s, c) :
        (/\ \A k \in ReqsFor(s, c) : s[i].timestamp <= s[k].timestamp
         /\ s[j].timestamp = s[i].timestamp) => s[i].id = s[j].id

(***************************************************************************)
(* C4 (as stated): the final grid is the same for every order in which     *)
(* the multiset of handled requests is processed.  Violated: two requests  *)
(* for one cell with the same timestamp and different owners.              *)
(***************************************************************************)
C4_OrderIndependent == \A q \in Perms(processed) : FinalGrid(q) = grid

(***************************************************************************)
(* C4 (amended): for every order of the multiset, the state and the        *)
(* timestamp of every cell are the same, and so is the owner of every      *)
(* cell whose smallest-timestamp requests all name the same owner.         *)
(***************************************************************************)
C4_OrderIndependentUpToTies ==
    \A q \in Perms(processed) : \A c \in Cells :
        /\ FinalGrid(q)[c].state = grid[c].state
        /\ FinalGrid(q)[c].timestamp = grid[c].timestamp
        /\ MinTsOwnerUnique(processed, c) => FinalGrid(q)[c].owner = grid[c].owner

\* Three requests handled, the later of two rivals for a cell carrying the
\* smaller timestamp and having taken the cell over.
C4_Witness ==
    /\ Len(processed) = 3
    /\ \E i, j \in 1..3 :
        /\ i < j
        /\ processed[i].cell = processed[j].cell
        /\ processed[i].id # processed[j].id
        /\ processed[j].timestamp < processed[i].timestamp
        /\ grid[processed[j].cell].owner = processed[j].id

(***************************************************************************)
(* C5: when exactly two requests name a cell and their timestamps differ,  *)
(* the cell is owned by the sender of the smaller timestamp and stores     *)
(* that timestamp, in whichever order the two were handled.                *)
(***************************************************************************)
C5_EarlierTimestampWins ==
    \A c \in Cells : \A i, j \in ReqsFor(processed, c) :
        (/\ Cardinality(ReqsFor(processed, c)) = 2
         /\ processed[i].timestamp < processed[j].timestamp)
        => /\ grid[c].state = "ACQUIRED"
           /\ grid[c].owner = processed[i].id
           /\ grid[c].timestamp = processed[i].timestamp

\* B's request (the larger timestamp) was handled first, then A's; A owns the cell.
C5_Witness ==
    /\ Len(processed) = 2
    /\ processed[1].cell = processed[2].cell
    /\ processed[1].id = "2" /\ processed[2].id = "1"
    /\ processed[2].timestamp < processed[1].timestamp
    /\ grid[processed[1].cell].owner = "1"
    /\ grid[processed[1].cell].timestamp = processed[2].timestamp

(***************************************************************************)
(* C6 (as stated): once a cell is ACQUIRED its owner never changes.        *)
(* Violated: a request with a strictly smaller timestamp takes the cell.   *)
(***************************************************************************)
C6_OwnerImmutable ==
    [][\A c \in Cells :
          grid[c].state = "ACQUIRED" => grid'[c].owner = grid[c].owner]_vars

(***************************************************************************)
(* C6 (amended): once a cell is ACQUIRED its owner changes only in a step  *)
(* that strictly lowers the cell's stored timestamp, i.e. only by a        *)
(* request whose timestamp is strictly smaller than the stored one.        *)
(***************************************************************************)
C6_OwnerChangesOnlyOnSmallerTs ==
    [][\A c \in Cells :
          (grid[c].state = "ACQUIRED" /\ grid'[c].owner # grid[c].owner)
          => /\ grid'[c].timestamp < grid[c].timestamp
             /\ processed'[Len(processed')].cell = c
             /\ processed'[Len(processed')].timestamp = grid'[c].timestamp]_vars

\* A rival's request with a timestamp not smaller than the stored one was
\* handled on an ACQUIRED cell and the owner is still the first one.
C6_Witness ==
    /\ Len(processed) = 2
    /\ processed[1].cell = processed[2].cell
    /\ processed[1].id # processed[2].id
    /\ processed[2].timestamp >= processed[1].timestamp
    /\ grid[processed[1].cell].owner = processed[1].id

(***************************************************************************)
(* C7: in every server state, a cell is UNCLAIMED iff it has no owner.     *)
(* Violated: an ACQUIRE_REQ payload without "id" is accepted and the cell  *)
(* becomes ACQUIRED with owner None.                                       *)
(***************************************************************************)
C7_UnclaimedIffNoOwner ==
    \A c \in Cells : (grid[c].state = "UNCLAIMED") <=> (grid[c].owner = None)

(***************************************************************************)
(* C8: an ACQUIRED cell stays ACQUIRED; a request changes an ACQUIRED cell *)
(* only if its timestamp is strictly smaller than the stored one, and then *)
(* the stored timestamp becomes that strictly smaller value; a request     *)
(* whose timestamp is equal or larger (a duplicate, a rival with an equal  *)
(* timestamp) leaves the whole grid unchanged.                             *)
(***************************************************************************)
C8_AcceptanceMonotonic ==
    [][LET r == processed'[Len(processed')]
       IN  /\ \A c \in Cells :
                grid[c].state = "ACQUIRED" =>
                    /\ grid'[c].state = "ACQUIRED"
                    /\ grid'[c] # grid[c] =>
                          /\ c = r.cell
                          /\ r.timestamp < grid[c].timestamp
                          /\ grid'[c].timestamp = r.timestamp
           /\ (/\ r.cell \in Cells
               /\ grid[r.cell].state = "ACQUIRED"
               /\ r.timestamp >= grid[r.cell].timestamp) => grid' = grid]_vars

\* An overwrite by a smaller timestamp, then a rival's request with that same
\* timestamp, which changed nothing.
C8_Witness ==
    /\ Len(processed) = 3
    /\ \A i \in 1..3 : processed[i].cell = <<0, 0>>
    /\ processed[1].id = "1" /\ processed[1].timestamp = 2
    /\ processed[2].id = "2" /\ processed[2].timestamp = 1
    /\ processed[3].id = "1" /\ processed[3].timestamp = 1
    /\ grid[<<0, 0>>] = [state |-> "ACQUIRED", owner |-> "2", timestamp |-> 1]

(***************************************************************************)
(* Server: receiver thread, one action per message type.  m is the         *)
(* datagram received and base what is in flight once it has been received  *)
(* (net \ {m}, or net when the transport duplicated m).                    *)
(***************************************************************************)
\* MSG_INIT: allocate or re-use the id, send ASSIGN_ID and a full snapshot.
ServerRecvInit(m, base) ==
    /\ m.type = "INIT"
    /\ LET a == m.addr
           known == a \in DOMAIN pending_assign
           pid == IF known THEN pending_assign[a] ELSE Str(next_id)
       IN  /\ pending_assign' = IF known THEN pending_assign
                                ELSE pending_assign @@ (a :> pid)
           /\ next_id' = IF known THEN next_id ELSE next_id + 1
           /\ Send(base, <<AssignIdMsg(a, pid),
                           SnapshotMsg(a, snapshot_id, TRUE, grid)>>)
           /\ snapshot_id' = snapshot_id + 1
           /\ ids_sent' = [ids_sent EXCEPT ![a] = @ \cup {pid}]
           /\ allocs' = [allocs EXCEPT ![a] = IF known THEN @ ELSE @ + 1]
           /\ late_cells' = [late_cells EXCEPT ![a] = {}]
    /\ UNCHANGED <<grid, last_grid, clients, client_last_acked, is_game_over,
                   pending_acquire_events, now, clientVars, processed, acked_cells,
                   clicks>>

\* MSG_ACQUIRE_REQ
ServerRecvAcquireReq(m, base) ==
    /\ m.type = "ACQUIRE_REQ"
    /\ HandleAcquireRequest(base, m.cell, m.id, m.timestamp)
    /\ UNCHANGED <<clientVars, processed, acked_cells, ids_sent, allocs, clicks>>

\* MSG_SNAPSHOT_NACK: send the next delta at once.
ServerRecvNack(m, base) ==
    /\ m.type = "SNAPSHOT_NACK"
    /\ Send(base, DeltaMsgs(grid, last_grid, snapshot_id))
    /\ snapshot_id' = snapshot_id + 1
    /\ UNCHANGED <<grid, last_grid, clients, pending_assign, client_last_acked, next_id,
                   is_game_over, pending_acquire_events, now, clientVars, histVars>>

\* MSG_ASSIGN_ID_ACK: a pending endpoint becomes active.
ServerRecvAssignIdAck(m, base) ==
    /\ m.type = "ASSIGN_ID_ACK"
    /\ IF m.addr \in DOMAIN pending_assign
       THEN /\ clients' = clients \cup {m.addr}
            /\ client_last_acked' =
                   [a \in DOMAIN client_last_acked \cup {m.addr} |->
                       IF a = m.addr THEN -1 ELSE client_last_acked[a]]
            /\ pending_assign' =
                   [a \in DOMAIN pending_assign \ {m.addr} |-> pending_assign[a]]
       ELSE UNCHANGED <<clients, client_last_acked, pending_assign>>
    /\ Send(base, <<>>)
    /\ UNCHANGED <<grid, last_grid, snapshot_id, next_id, is_game_over,
                   pending_acquire_events, now, clientVars, histVars>>

\* MSG_ACQUIRE_ACK: set the sender's ack bit; drop the entry when all are set.
ServerRecvAcquireAck(m, base) ==
    /\ m.type = "ACQUIRE_ACK"
    /\ IF m.event_id \in DOMAIN pending_acquire_events
       THEN LET e == pending_acquire_events[m.event_id]
                acks1 == [a \in DOMAIN e.acks \cup {m.addr} |->
                             IF a = m.addr THEN TRUE ELSE e.acks[a]]
            IN  pending_acquire_events' =
                    IF \A a \in DOMAIN acks1 : acks1[a]
                    THEN [x \in DOMAIN pending_acquire_events \ {m.event_id} |->
                             pending_acquire_events[x]]
                    ELSE [pending_acquire_events EXCEPT ![m.event_id].acks = acks1]
       ELSE UNCHANGED pending_acquire_events
    /\ Send(base, <<>>)
    /\ UNCHANGED <<grid, last_grid, clients, pending_assign, client_last_acked,
                   snapshot_id, next_id, is_game_over, now, clientVars, histVars>>

\* MSG_SNAPSHOT_ACK: client_last_acked[addr] = data["snapshot_id"]
ServerRecvSnapshotAck(m, base) ==
    /\ m.type = "SNAPSHOT_ACK"
    /\ client_last_acked' =
           [a \in DOMAIN client_last_acked \cup {m.addr} |->
               IF a = m.addr THEN m.snapshot_id ELSE client_last_acked[a]]
    /\ Send(base, <<>>)
    /\ UNCHANGED <<grid, last_grid, clients, pending_assign, snapshot_id, next_id,
                   is_game_over, pending_acquire_events, now, clientVars, histVars>>

(***************************************************************************)
(* Server: the other threads.                                              *)
(***************************************************************************)
\* broadcaster: one tick.
Broadcaster ==
    /\ ~is_game_over
    /\ Send(net, DeltaMsgs(grid, last_grid, snapshot_id))
    /\ snapshot_id' = snapshot_id + 1
    /\ UNCHANGED <<grid, last_grid, clients, pending_assign, client_last_acked, next_id,
                   is_game_over, pending_acquire_events, now, clientVars, histVars>>

\* update_last_grid_when_safe: one iteration that advances the baseline.
Advancer ==
    /\ SafeToAdvance
    /\ last_grid' = grid
    /\ Send(net, <<>>)
    /\ UNCHANGED <<grid, clients, pending_assign, client_last_acked, snapshot_id, next_id,
                   is_game_over, pending_acquire_events, now, clientVars, histVars>>

\* The (event, recipient) pairs whose ack bit is false.
Unacked ==
    {<<e, a>> \in (DOMAIN pending_acquire_events) \X Addrs :
        /\ a \in DOMAIN pending_acquire_events[e].acks
        /\ ~pending_acquire_events[e].acks[a]}

\* resend_acquire_events: one retransmission.
ResendAcquireEvent(e, a) ==
    /\ <<e, a>> \in Unacked
    /\ Send(net, <<AcquireEventMsg(a, pending_acquire_events[e].payload.cell,
                                   pending_acquire_events[e].payload.owner, e)>>)
    /\ UNCHANGED <<serverVars, clientVars, histVars>>

\* resend_assign_id: the resend timer of pending endpoint a has expired.
ResendAssignId(a) ==
    /\ a \in DOMAIN pending_assign
    /\ Send(net, <<AssignIdMsg(a, pending_assign[a])>>)
    /\ ids_sent' = [ids_sent EXCEPT ![a] = @ \cup {pending_assign[a]}]
    /\ UNCHANGED <<serverVars, clientVars, processed, acked_cells, late_cells, allocs,
                   clicks>>

(***************************************************************************)
(* Client at endpoint a.                                                   *)
(***************************************************************************)
\* init_resender
ClientSendInit(a) ==
    /\ player_id[a] = None
    /\ Send(net, <<InitMsg(a)>>)
    /\ UNCHANGED <<serverVars, clientVars, histVars>>

\* on_click / random_clicker: send_acquire_request, ts the client's now_ms()
ClientClick(a, cell, ts) ==
    /\ player_id[a] # None
    /\ Send(net, <<AcquireReqMsg(a, player_id[a], cell, ts)>>)
    /\ clicks' = clicks + 1
    /\ UNCHANGED <<serverVars, clientVars, processed, acked_cells, late_cells,
                   ids_sent, allocs>>

\* client.py:218  the ASSIGN_ID branch is taken only while player_id[0] is None
TakesAssignId(a) == player_id[a] = None

\* receiver, MSG_ASSIGN_ID
ClientRecvAssignId(a, m, base) ==
    /\ m.type = "ASSIGN_ID" /\ m.addr = a
    /\ IF TakesAssignId(a)
       THEN /\ player_id' = [player_id EXCEPT ![a] = m.id]
            /\ Send(base, <<AssignIdAckMsg(a)>>)
       ELSE /\ UNCHANGED player_id
            /\ Send(base, <<>>)
    /\ UNCHANGED <<serverVars, client_grid, latest_snapshot, snapshot_buffer,
                   game_over, applier_running, chunked_snapshots, histVars>>

\* A receiver that buffers every snapshot, whatever its id.
IsStaleNever(a, sid) == FALSE

\* client.py:227  if snapshot_id <= latest_snapshot: continue
IsStale(a, sid) == sid <= latest_snapshot[a]

\* receiver, MSG_SNAPSHOT with total_chunks = 1
ClientRecvSnapshot(a, m, base) ==
    /\ m.type = "SNAPSHOT" /\ m.addr = a
    /\ IF IsStale(a, m.snapshot_id)
       THEN /\ Send(base, <<>>)
            /\ UNCHANGED <<latest_snapshot, snapshot_buffer, acked_cells>>
       ELSE /\ latest_snapshot' = [latest_snapshot EXCEPT ![a] = m.snapshot_id]
            /\ snapshot_buffer' = [snapshot_buffer EXCEPT ![a] =
                   Append(@, [snapshot_id |-> m.snapshot_id, is_full |-> m.is_full,
                              grid |-> m.grid])]
            /\ Send(base, <<SnapshotAckMsg(a, m.snapshot_id)>>)
            /\ acked_cells' = [acked_cells EXCEPT ![a] =
                   @ \cup {<<c, m.grid[c]>> : c \in DOMAIN m.grid}]
    /\ UNCHANGED <<serverVars, player_id, client_grid, game_over, applier_running,
                   chunked_snapshots, processed, late_cells, ids_sent, allocs, clicks>>

\* Mutation of MergeChunks: only the chunk with the highest index is taken.
MergeChunksLastOnly(chunks, n) == chunks[n - 1]

\* The cells of the chunks 0..(n - 1) of table chunks, merged by dict.update.
RECURSIVE MergeChunks(_, _)
MergeChunks(chunks, n) ==
    IF n = 0 THEN <<>>
    ELSE chunks[n - 1] @@ MergeChunks(chunks, n - 1)

\* receiver, MSG_SNAPSHOT with total_chunks > 1: the chunk is stored and acked;
\* the snapshot is buffered when the table holds total_chunks chunks.
ClientRecvChunk(a, m, base) ==
    /\ m.type = "SNAPSHOT_CHUNK" /\ m.addr = a
    /\ IF IsStale(a, m.snapshot_id)
       THEN /\ Send(base, <<>>)
            /\ UNCHANGED <<latest_snapshot, snapshot_buffer, chunked_snapshots,
                           acked_cells>>
       ELSE LET sid == m.snapshot_id
                old == IF sid \in DOMAIN chunked_snapshots[a]
                       THEN chunked_snapshots[a][sid] ELSE <<>>
                chunks == [i \in DOMAIN old \cup {m.chunk_index} |->
                              IF i = m.chunk_index THEN m.grid ELSE old[i]]
                complete == Cardinality(DOMAIN chunks) = m.total_chunks
            IN  /\ Send(base, <<SnapshotAckMsg(a, sid)>>)
                /\ acked_cells' = [acked_cells EXCEPT ![a] =
                       @ \cup {<<c, m.grid[c]>> : c \in DOMAIN m.grid}]
                /\ IF complete
                   THEN /\ latest_snapshot' = [latest_snapshot EXCEPT ![a] = sid]
                        /\ snapshot_buffer' = [snapshot_buffer EXCEPT ![a] =
                               Append(@, [snapshot_id |-> sid, is_full |-> m.is_full,
                                          grid |-> MergeChunks(chunks, m.total_chunks)])]
                        /\ chunked_snapshots' = [chunked_snapshots EXCEPT ![a] =
                               [k \in DOMAIN @ \ {sid} |-> @[k]]]
                   ELSE /\ chunked_snapshots' = [chunked_snapshots EXCEPT ![a] =
                               [k \in DOMAIN @ \cup {sid} |->
                                   IF k = sid THEN chunks ELSE @[k]]]
                        /\ UNCHANGED <<latest_snapshot, snapshot_buffer>>
    /\ UNCHANGED <<serverVars, player_id, client_grid, game_over, applier_running,
                   processed, late_cells, ids_sent, allocs, clicks>>

\* receiver, MSG_GAME_OVER
ClientRecvGameOver(a, m, base) ==
    /\ m.type = "GAME_OVER" /\ m.addr = a
    /\ game_over' = [game_over EXCEPT ![a] = TRUE]
    /\ Send(base, <<>>)
    /\ UNCHANGED <<serverVars, player_id, client_grid, latest_snapshot, snapshot_buffer,
                   applier_running, chunked_snapshots, histVars>>

\* Mutation of ClientRecvAcquireEvent: an event for a cell that already has the
\* owner is taken for a duplicate and is not acknowledged.
ClientRecvAcquireEventAcksOnce(a, m, base) ==
    /\ m.type = "ACQUIRE_EVENT" /\ m.addr = a
    /\ client_grid' = [client_grid EXCEPT ![a][m.cell] =
           [state |-> "ACQUIRED", owner |-> m.owner, timestamp |-> NoTimestamp]]
    /\ IF client_grid[a][m.cell].owner = m.owner
       THEN Send(base, <<>>)
       ELSE Send(base, <<AcquireAckMsg(a, m.event_id)>>)
    /\ UNCHANGED <<serverVars, player_id, latest_snapshot, snapshot_buffer, game_over,
                   applier_running, chunked_snapshots, histVars>>

\* receiver, MSG_ACQUIRE_EVENT
ClientRecvAcquireEvent(a, m, base) ==
    /\ m.type = "ACQUIRE_EVENT" /\ m.addr = a
    /\ client_grid' = [client_grid EXCEPT ![a][m.cell] =
           [state |-> "ACQUIRED", owner |-> m.owner, timestamp |-> NoTimestamp]]
    /\ Send(base, <<AcquireAckMsg(a, m.event_id)>>)
    /\ UNCHANGED <<serverVars, player_id, latest_snapshot, snapshot_buffer, game_over,
                   applier_running, chunked_snapshots, histVars>>

\* apply_full_snapshot / the delta loop of snapshot_applier
ApplySnapshot(g, snap) ==
    [c \in Cells |->
        IF c \in DOMAIN snap.grid THEN snap.grid[c]
        ELSE IF snap.is_full THEN ClientUnclaimed ELSE g[c]]

\* snapshot_applier: the head of the buffer is due and is applied.
ClientApply(a) ==
    /\ applier_running[a]
    /\ snapshot_buffer[a] # <<>>
    /\ client_grid' = [client_grid EXCEPT ![a] = ApplySnapshot(@, Head(snapshot_buffer[a]))]
    /\ snapshot_buffer' = [snapshot_buffer EXCEPT ![a] = Tail(@)]
    /\ Send(net, <<>>)
    /\ UNCHANGED <<serverVars, player_id, latest_snapshot, game_over, applier_running,
                   chunked_snapshots, histVars>>

\* snapshot_applier: game_over and an empty buffer end the thread.
ClientApplierExit(a) ==
    /\ applier_running[a]
    /\ game_over[a] /\ snapshot_buffer[a] = <<>>
    /\ applier_running' = [applier_running EXCEPT ![a] = FALSE]
    /\ Send(net, <<>>)
    /\ UNCHANGED <<serverVars, player_id, client_grid, latest_snapshot, snapshot_buffer,
                   game_over, chunked_snapshots, histVars>>

\* snapshot_watchdog: silence for longer than the timeout
ClientWatchdog(a) ==
    /\ player_id[a] # None
    /\ latest_snapshot[a] >= 0
    /\ ~game_over[a]
    /\ Send(net, <<SnapshotNackMsg(a, latest_snapshot[a])>>)
    /\ UNCHANGED <<serverVars, clientVars, histVars>>

(***************************************************************************)
(* Network and the protocol specification.                                 *)
(***************************************************************************)
\* The transport loses datagram m.
Lose(m) ==
    /\ net' = net \ {m}
    /\ out' = <<>>
    /\ UNCHANGED <<serverVars, clientVars, histVars, last_sent>>

\* Spec runs one client process, at endpoint "a"; the transport loses, delays
\* and reorders datagrams (a datagram received leaves the network).  With
\* MaxClicks requests the grid is never full, so the GAME_OVER steps
\* (ClientRecvGameOver, ClientApplierExit) cannot occur and are not disjuncts.
SpecAddrs == {"a"}

Next ==
    \/ \E m \in net :
          /\ snapshot_id < MaxSnapshotId
          /\ m.addr \in DOMAIN pending_assign \/ next_id <= MaxIds
          /\ ServerRecvInit(m, net \ {m}) /\ UNCHANGED lockVars
    \/ \E m \in net : ServerRecvAcquireReq(m, net \ {m}) /\ UNCHANGED lockVars
    \/ \E m \in net : snapshot_id < MaxSnapshotId /\ ServerRecvNack(m, net \ {m}) /\ UNCHANGED lockVars
    \/ \E m \in net : ServerRecvAssignIdAck(m, net \ {m}) /\ UNCHANGED lockVars
    \/ \E m \in net : ServerRecvAcquireAck(m, net \ {m}) /\ UNCHANGED lockVars
    \/ \E m \in net : ServerRecvSnapshotAck(m, net \ {m}) /\ UNCHANGED lockVars
    \/ snapshot_id < MaxSnapshotId /\ Broadcaster /\ UNCHANGED lockVars
    \/ Advancer /\ UNCHANGED lockVars
    \/ \E e \in DOMAIN pending_acquire_events, a \in Addrs : ResendAcquireEvent(e, a) /\ UNCHANGED lockVars
    \/ \E a \in Addrs : ResendAssignId(a) /\ UNCHANGED lockVars
    \/ \E a \in SpecAddrs : ClientSendInit(a) /\ UNCHANGED lockVars
    \/ \E a \in SpecAddrs, cell \in Cells, ts \in TsVals :
          clicks < MaxClicks /\ ClientClick(a, cell, ts) /\ UNCHANGED lockVars
    \/ \E a \in SpecAddrs, m \in net : ClientRecvAssignId(a, m, net \ {m}) /\ UNCHANGED lockVars
    \/ \E a \in SpecAddrs, m \in net : ClientRecvSnapshot(a, m, net \ {m}) /\ UNCHANGED lockVars
    \/ \E a \in SpecAddrs, m \in net : ClientRecvAcquireEvent(a, m, net \ {m}) /\ UNCHANGED lockVars
    \/ \E a \in SpecAddrs : ClientApply(a) /\ UNCHANGED lockVars
    \/ \E a \in SpecAddrs : ClientWatchdog(a) /\ UNCHANGED lockVars
    \/ \E m \in net : Lose(m) /\ UNCHANGED lockVars

Spec == Init /\ [][Next]_vars

(***************************************************************************)
(* SpecServer: the server threads fed with the datagrams the client at     *)
(* endpoint "a" sends: INIT until it is ACTIVE, ASSIGN_ID_ACK, ACQUIRE_REQ *)
(* with an id it was assigned, SNAPSHOT_ACK for the first full snapshot or *)
(* the last snapshot sent to it, ACQUIRE_ACK and SNAPSHOT_NACK, in any     *)
(* order and any number of times.  What the server emits is observed in    *)
(* out; it has left the network before the next step of a server thread.   *)
(***************************************************************************)
ServerNext ==
    \/ \E a \in SpecAddrs :
          /\ snapshot_id < MaxServerSnapshotId
          /\ a \in DOMAIN pending_assign \/ next_id <= MaxIds
          /\ a \notin clients
          /\ ServerRecvInit(InitMsg(a), {}) /\ UNCHANGED lockVars
    \/ \E a \in SpecAddrs : ServerRecvAssignIdAck(AssignIdAckMsg(a), {}) /\ UNCHANGED lockVars
    \/ \E a \in SpecAddrs : \E k \in ({0, last_sent[a]} \ {-1}) :
          /\ ids_sent[a] # {}
          /\ ServerRecvSnapshotAck(SnapshotAckMsg(a, k), {}) /\ UNCHANGED lockVars
    \/ \E a \in SpecAddrs : \E pid \in ids_sent[a], cell \in Cells, ts \in TsVals :
          ServerRecvAcquireReq(AcquireReqMsg(a, pid, cell, ts), {}) /\ UNCHANGED lockVars
    \/ \E a \in SpecAddrs : \E e \in DOMAIN pending_acquire_events :
          ServerRecvAcquireAck(AcquireAckMsg(a, e), {}) /\ UNCHANGED lockVars
    \/ \E a \in SpecAddrs :
          /\ snapshot_id < MaxServerSnapshotId
          /\ last_sent[a] >= 0
          /\ ServerRecvNack(SnapshotNackMsg(a, last_sent[a]), {}) /\ UNCHANGED lockVars
    \/ snapshot_id < MaxServerSnapshotId /\ net = {} /\ Broadcaster /\ UNCHANGED lockVars
    \/ net = {} /\ Advancer /\ UNCHANGED lockVars
    \/ \E e \in DOMAIN pending_acquire_events, a \in Addrs :
          net = {} /\ ResendAcquireEvent(e, a) /\ UNCHANGED lockVars
    \/ \E a \in Addrs : net = {} /\ ResendAssignId(a) /\ UNCHANGED lockVars
    \/ \E m \in net : Lose(m) /\ UNCHANGED lockVars

SpecServer == Init /\ [][ServerNext]_vars

(***************************************************************************)
(* SpecClient: the client threads at endpoint "a" fed with the datagrams a *)
(* server can send it, in any order and any number of times: full and      *)
(* delta snapshots in one datagram, full snapshots split into one chunk    *)
(* per cell, ACQUIRE_EVENTs and GAME_OVER.                                 *)
(***************************************************************************)
\* The value of a cell player "1" acquired.
RxCell == AcquiredCell(UnclaimedCell, "1", 1)

\* A delta carrying the first cell of the grid.
RxDelta == [c \in {CellOrder[1]} |-> RxCell]

\* The cells of chunk i of a full snapshot of a grid acquired by player "1",
\* split into one chunk per cell.
ChunkGrid(i) == [c \in {CellOrder[i + 1]} |-> RxCell]

\* total_chunks of that snapshot.
TotalChunks == Len(CellOrder)

SnapshotInputs(a) ==
    {SnapshotMsg(a, sid, TRUE, InitGrid) : sid \in 0..MaxRxSnapshotId}
        \cup {SnapshotMsg(a, sid, FALSE, RxDelta) : sid \in 0..MaxRxSnapshotId}

ChunkInputs(a) ==
    {SnapshotChunkMsg(a, sid, TRUE, ChunkGrid(i), TotalChunks, i) :
        sid \in 0..MaxRxSnapshotId, i \in 0..(TotalChunks - 1)}

EventInputs(a) == {AcquireEventMsg(a, c, "1", e) : c \in Cells, e \in {0, 1}}

GameOverInput(a) ==
    GameOverMsg(a, "1", [o \in {"1"} |-> Cardinality(Cells)])

ClientNext ==
    \/ \E a \in SpecAddrs : \E m \in SnapshotInputs(a) : ClientRecvSnapshot(a, m, {}) /\ UNCHANGED lockVars
    \/ \E a \in SpecAddrs : \E m \in ChunkInputs(a) : ClientRecvChunk(a, m, {}) /\ UNCHANGED lockVars
    \/ \E a \in SpecAddrs : \E m \in EventInputs(a) : ClientRecvAcquireEvent(a, m, {}) /\ UNCHANGED lockVars
    \/ \E a \in SpecAddrs : ClientRecvGameOver(a, GameOverInput(a), {}) /\ UNCHANGED lockVars
    \/ \E a \in SpecAddrs : ClientApply(a) /\ UNCHANGED lockVars
    \/ \E a \in SpecAddrs : ClientApplierExit(a) /\ UNCHANGED lockVars

SpecClient == Init /\ [][ClientNext]_vars

(***************************************************************************)
(* C1: convergence.  Settled(a) is a state in which endpoint a is ACTIVE,  *)
(* no further ACQUIRE_REQ will arrive, nothing is in flight, no snapshot   *)
(* waits to be applied, the delta against the baseline is empty and no     *)
(* ACQUIRE_EVENT waits for a's ack: nothing the server sends from such a   *)
(* state on carries a cell.  The claim requires that the client's grid     *)
(* then has the state and owner of the server's grid for every cell.       *)
(***************************************************************************)
Settled(a) ==
    /\ a \in clients
    /\ player_id[a] # None
    /\ clicks = MaxClicks
    /\ net = {}
    /\ snapshot_buffer[a] = <<>>
    /\ DOMAIN Delta(grid, last_grid) = {}
    /\ \A e \in DOMAIN pending_acquire_events : <<e, a>> \notin Unacked

C1_Convergence ==
    \A a \in Addrs :
        Settled(a) =>
            \A c \in Cells : /\ client_grid[a][c].state = grid[c].state
                             /\ client_grid[a][c].owner = grid[c].owner

(***************************************************************************)
(* C2: baseline safety.  For every cell whose baseline value differs from  *)
(* the initial UNCLAIMED value, every ACTIVE client has acknowledged a     *)
(* snapshot that carried exactly that value for that cell.                 *)
(***************************************************************************)
C2_BaselineSafety ==
    \A c \in Cells :
        last_grid[c] # UnclaimedCell =>
            \A a \in clients : <<c, last_grid[c]>> \in acked_cells[a]

(***************************************************************************)
(* C3: late join.  A cell accepted after the server built a joiner's full  *)
(* snapshot and before the joiner became ACTIVE stays in the delta until   *)
(* the joiner has acked a snapshot carrying the cell as ACQUIRED.           *)
(***************************************************************************)
C3_LateJoin ==
    \A a \in clients :
        \A c \in late_cells[a] :
            (\A p \in acked_cells[a] : ~(p[1] = c /\ p[2].state = "ACQUIRED"))
                => c \in DOMAIN Delta(grid, last_grid)

(***************************************************************************)
(* C9: endpoint-stable identity.  Every ASSIGN_ID sent to an endpoint      *)
(* carries the same player id, and next_id is incremented at most once for *)
(* the endpoint.                                                           *)
(***************************************************************************)
C9_StableIdentity ==
    \A a \in Addrs : Cardinality(ids_sent[a]) <= 1 /\ allocs[a] <= 1

(***************************************************************************)
(* C10: handshake completion.  Every step in which a client receives an    *)
(* ASSIGN_ID emits an ASSIGN_ID_ACK, also when its player id is already    *)
(* stored.                                                                 *)
(***************************************************************************)
C10_AcksEveryAssignId ==
    [][\A a \in Addrs : \A m \in net :
          ClientRecvAssignId(a, m, net \ {m}) => AssignIdAckMsg(a) \in Range(out')]_vars

(***************************************************************************)
(* C11: an ACTIVE endpoint does not regress.  In every step, an endpoint   *)
(* that is in clients stays in clients and is not recorded in              *)
(* pending_assign afterwards.                                              *)
(***************************************************************************)
C11_ActiveNeverRegresses ==
    [][\A a \in clients : a \in clients' /\ a \notin DOMAIN pending_assign']_vars

(***************************************************************************)
(* C12: cumulative ack.  For an ACTIVE session client_last_acked never     *)
(* decreases, whatever the order in which the acks are delivered.          *)
(***************************************************************************)
C12_LastAckedNeverDecreases ==
    [][\A a \in clients :
          (a \in DOMAIN client_last_acked /\ a \in DOMAIN client_last_acked')
              => client_last_acked'[a] >= client_last_acked[a]]_vars

(***************************************************************************)
(* C13: every snapshot_id carried by a SNAPSHOT the server emits to an     *)
(* ACTIVE session is the id of the previous SNAPSHOT sent to that session  *)
(* plus 1, as long as the game is not over.                                *)
(***************************************************************************)
C13_SnapshotIdsConsecutive ==
    [][\A i \in 1..Len(out') :
          (/\ ~is_game_over'
           /\ out'[i].type = "SNAPSHOT"
           /\ out'[i].addr \in clients
           /\ last_sent[out'[i].addr] >= 0)
              => out'[i].snapshot_id = last_sent[out'[i].addr] + 1]_vars

(***************************************************************************)
(* C14: the snapshot ids the client pushes to the render-delay buffer and  *)
(* applies are strictly increasing.  In every step the buffer of a client  *)
(* is unchanged, or loses its head, which is applied to the local grid, or *)
(* gains at its end a snapshot whose id is greater than latest_snapshot,   *)
(* which becomes that id; the ids in the buffer are strictly increasing    *)
(* and at most latest_snapshot.                                            *)
(***************************************************************************)
C14_BufferedIdsIncrease ==
    [][\A a \in Addrs :
          LET buf == snapshot_buffer[a]
              buf1 == snapshot_buffer'[a]
          IN  /\ \/ buf1 = buf /\ latest_snapshot'[a] = latest_snapshot[a]
                 \/ /\ buf # <<>> /\ buf1 = Tail(buf)
                    /\ latest_snapshot'[a] = latest_snapshot[a]
                    /\ client_grid'[a] = ApplySnapshot(client_grid[a], Head(buf))
                 \/ /\ buf1 # <<>> /\ buf = SubSeq(buf1, 1, Len(buf1) - 1)
                    /\ buf1[Len(buf1)].snapshot_id > latest_snapshot[a]
                    /\ latest_snapshot'[a] = buf1[Len(buf1)].snapshot_id
              /\ \A i \in 1..Len(buf1) :
                    /\ buf1[i].snapshot_id <= latest_snapshot'[a]
                    /\ \A j \in 1..(i - 1) : buf1[j].snapshot_id < buf1[i].snapshot_id]_vars

\* Two snapshots wait in the buffer, one of them reassembled from chunks,
\* while an older datagram and a chunk of another snapshot have arrived.
C14_Witness ==
    \E a \in Addrs :
        /\ Len(snapshot_buffer[a]) >= 2
        /\ \E i \in 1..Len(snapshot_buffer[a]) :
              snapshot_buffer[a][i].grid =
                  MergeChunks([k \in 0..(TotalChunks - 1) |-> ChunkGrid(k)], TotalChunks)
        /\ chunked_snapshots[a] # <<>>

(***************************************************************************)
(* C15: per-cell monotonicity on the client.  In every step, a cell that   *)
(* is ACQUIRED in a client's local grid is ACQUIRED afterwards.            *)
(***************************************************************************)
C15_ClientCellStaysAcquired ==
    [][\A a \in Addrs : \A c \in Cells :
          client_grid[a][c].state = "ACQUIRED" => client_grid'[a][c].state = "ACQUIRED"]_vars

(***************************************************************************)
(* C16: a session emits exactly one ACQUIRE_ACK for an event_id.  No step  *)
(* in which a client receives an ACQUIRE_EVENT, and so emits an            *)
(* ACQUIRE_ACK for its event_id, is taken while an ACQUIRE_ACK of that     *)
(* client for that event_id is still in flight.                            *)
(***************************************************************************)
C16_OneAckPerEvent ==
    [][\A a \in Addrs : \A m \in net :
          ClientRecvAcquireEvent(a, m, net \ {m})
              => AcquireAckMsg(a, m.event_id) \notin net]_vars

(***************************************************************************)
(* C17: an entry of pending_acquire_events is removed exactly when all its *)
(* ack bits are true: the table holds no entry whose ack bits are all      *)
(* true, an entry created while no session was ACTIVE included.            *)
(***************************************************************************)
C17_NoFullyAckedEntry ==
    \A e \in DOMAIN pending_acquire_events :
        \E a \in DOMAIN pending_acquire_events[e].acks :
            ~pending_acquire_events[e].acks[a]

(***************************************************************************)
(* C18: event_id uniqueness.  The event_id an accepted request gets (the   *)
(* value now_ms() returned, now') is not the key of an entry that is in    *)
(* pending_acquire_events, so no entry is overwritten.                     *)
(***************************************************************************)
C18_EventIdFresh ==
    [][grid' # grid => now' \notin DOMAIN pending_acquire_events]_vars

(***************************************************************************)
(* C19: terminal ordering.  In the step that processes the acceptance      *)
(* making every cell ACQUIRED, the server emits to each ACTIVE session a   *)
(* SNAPSHOT whose cells include the accepted cell, and after it GAME_OVER. *)
(***************************************************************************)
C19_FinalSnapshotBeforeGameOver ==
    [][(~is_game_over /\ is_game_over') =>
          \A a \in clients :
              \E i \in 1..Len(out') : \E j \in (i + 1)..Len(out') :
                  /\ out'[i].type = "SNAPSHOT" /\ out'[i].addr = a
                  /\ \A c \in Cells : grid'[c] # grid[c] => c \in DOMAIN out'[i].grid
                  /\ out'[j].type = "GAME_OVER" /\ out'[j].addr = a]_vars

(***************************************************************************)
(* C20: GAME_OVER content.  When every cell is ACQUIRED by a player with   *)
(* an id, the winner the server computes is an owner with the highest      *)
(* count and, among the owners with the highest count, the one with the    *)
(* lowest player id.                                                       *)
(***************************************************************************)
TopOwners(g) ==
    {o \in DOMAIN Counts(g) : \A p \in DOMAIN Counts(g) : Counts(g)[p] <= Counts(g)[o]}

\* The number n with str(n) = pid.
IdNum(pid) == CHOOSE n \in 1..9 : Str(n) = pid

C20_WinnerLowestIdOnTie ==
    (AllAcquired(grid) /\ None \notin DOMAIN Counts(grid)) =>
        /\ Winner(grid) \in TopOwners(grid)
        /\ \A o \in TopOwners(grid) : IdNum(Winner(grid)) <= IdNum(o)

(***************************************************************************)
(* C21: GAME_OVER is emitted repeatedly.  A step a server thread takes on  *)
(* its own, without a datagram arriving, is a broadcaster tick, a baseline *)
(* advance, or a retransmission of an ACQUIRE_EVENT or of an ASSIGN_ID.    *)
(* The claim requires that, while the GAME_OVER sent to an ACTIVE client   *)
(* is in flight and may be lost, some such step can hand another GAME_OVER *)
(* for that client to the transport.                                       *)
(***************************************************************************)
ServerTimerStep ==
    \/ Broadcaster
    \/ Advancer
    \/ \E e \in DOMAIN pending_acquire_events, a \in Addrs : ResendAcquireEvent(e, a)
    \/ \E a \in Addrs : ResendAssignId(a)

C21_GameOverResent ==
    \A m \in net :
        (m.type = "GAME_OVER" /\ m.addr \in clients /\ is_game_over) =>
            ENABLED (/\ ServerTimerStep
                     /\ \E i \in 1..Len(out') :
                           out'[i].type = "GAME_OVER" /\ out'[i].addr = m.addr)

(***************************************************************************)
(* Server: send_chunked_snapshot and the length of a SNAPSHOT datagram.    *)
(* The lengths are those of the compact JSON orjson.dumps produces for the *)
(* payload dict, in bytes.                                                 *)
(***************************************************************************)
\* constants.py: GRID_SIZE
GRID_SIZE == 5
\* constants.py: struct.calcsize("!4sBBIIQHI")
HEADER_SIZE == 28
\* The packet size cap server.py imports from constants.py.
MAX_PACKET_BYTES == 1200

\* The keys of the server's grid dict in insertion (row-major) order.
GridCellOrder ==
    [i \in 1..(GRID_SIZE * GRID_SIZE) |-> <<(i - 1) \div GRID_SIZE, (i - 1) % GRID_SIZE>>]
GridCells == Range(GridCellOrder)

\* A player id of LongIdLen characters: two cells it owns fill a full
\* snapshot's datagram to the cap exactly, with one-digit chunk fields.
LongId == "long"
LongIdLen == (MAX_PACKET_BYTES - 204) \div 2
\* A player id of HugeIdLen characters: one cell it owns exceeds the cap.
HugeId == "huge"
HugeIdLen == MAX_PACKET_BYTES

\* len(pid) for the player ids of the model.
IdLen(pid) ==
    IF pid = LongId THEN LongIdLen ELSE IF pid = HugeId THEN HugeIdLen ELSE 1

\* The number of decimal digits of n >= 0.
RECURSIVE Digits(_)
Digits(n) == IF n < 10 THEN 1 ELSE 1 + Digits(n \div 10)

\* len(orjson.dumps(v)) for a cell {"state","owner","timestamp"}.
CellLen(v) ==
    34 + (IF v.state = "UNCLAIMED" THEN 9 ELSE 8)
       + (IF v.owner = None THEN 4 ELSE IdLen(v.owner) + 2)
       + Digits(v.timestamp)

\* The bytes the entries of keys take inside the "grid" object: "r,c":<cell>
\* for each key, separated by commas.
RECURSIVE EntriesLen(_, _)
EntriesLen(cells, keys) ==
    IF keys = <<>> THEN 0
    ELSE 6 + CellLen(cells[Head(keys)])
           + (IF Len(keys) > 1 THEN 1 ELSE 0) + EntriesLen(cells, Tail(keys))

\* len(orjson.dumps(payload)) for a SNAPSHOT payload
\* {"grid", "timestamp", "is_full", "total_chunks", "chunk_index"}.
SnapshotPayloadLen(cells, keys, ts, full, total, idx) ==
    66 + EntriesLen(cells, keys) + Digits(ts) + (IF full THEN 4 ELSE 5)
       + Digits(total) + Digits(idx)

\* list(base_payload["grid"].items()): the keys of cells in dict order.
Items(cells) == SelectIn(GridCellOrder, DOMAIN cells)

\* items[:mid] with mid = len(items) // 2
FirstHalf(items) == SubSeq(items, 1, Len(items) \div 2)

\* Mutation of SecondHalf: the slice starts one item late.
SecondHalfSkipsOne(items) == SubSeq(items, Len(items) \div 2 + 2, Len(items))
\* items[mid:]
SecondHalf(items) == SubSeq(items, Len(items) \div 2 + 1, Len(items))

\* The while loop of send_chunked_snapshot: pending is the stack of key
\* lists, its top at the end; the result is parts, in order.  A list is split
\* when its test payload (total_chunks 1, chunk_index 0) does not fit and it
\* has more than one item.
RECURSIVE Parts(_, _, _, _)
Parts(cells, ts, full, pending) ==
    IF pending = <<>> THEN <<>>
    ELSE LET items == pending[Len(pending)]
             rest == SubSeq(pending, 1, Len(pending) - 1)
         IN  IF items = <<>> THEN Parts(cells, ts, full, rest)
             ELSE IF /\ HEADER_SIZE + SnapshotPayloadLen(cells, items, ts, full, 1, 0)
                            > MAX_PACKET_BYTES
                     /\ Len(items) > 1
                  THEN Parts(cells, ts, full,
                             rest \o <<FirstHalf(items), SecondHalf(items)>>)
                  ELSE <<items>> \o Parts(cells, ts, full, rest)

\* send_packet: sock.sendto comes before the length test, which only prints
\* a warning; every datagram is handed to the transport.
SentPackets(msgs) == msgs

\* send_chunked_snapshot(sock, a, sid, {"grid": cells, "timestamp": ts,
\* "is_full": full}): one datagram per part, with the real total_chunks and
\* chunk_index.
ChunkedSnapshotMsgs(a, sid, cells, ts, full) ==
    LET parts == Parts(cells, ts, full, <<Items(cells)>>)
        part(i) == [c \in Range(parts[i]) |-> cells[c]]
    IN  SentPackets([i \in 1..Len(parts) |->
            IF Len(parts) = 1 THEN SnapshotMsg(a, sid, full, part(i))
            ELSE SnapshotChunkMsg(a, sid, full, part(i), Len(parts), i - 1)])

\* total_chunks and chunk_index of a SNAPSHOT datagram.
TotalOf(m) == IF m.type = "SNAPSHOT_CHUNK" THEN m.total_chunks ELSE 1
IndexOf(m) == IF m.type = "SNAPSHOT_CHUNK" THEN m.chunk_index ELSE 0

\* len(packet) of a SNAPSHOT datagram whose payload timestamp is ts.
PacketLen(m, ts) ==
    HEADER_SIZE + SnapshotPayloadLen(m.grid, Items(m.grid), ts, m.is_full,
                                     TotalOf(m), IndexOf(m))

(***************************************************************************)
(* SpecChunk: send_full_snapshot and send_delta_snapshot applied to grids  *)
(* of the real dimensions.  The first MaxChunkCells cells of the grid take *)
(* every combination of an UNCLAIMED cell and cells acquired by a player   *)
(* with a short, a long and a huge id; the other cells share one of these  *)
(* values.  The baseline is the initial grid and both endpoints are        *)
(* ACTIVE.  The datagrams are observed in out.                             *)
(***************************************************************************)
\* Number of leading cells whose values vary independently.
MaxChunkCells == 3
\* Number of snapshots SpecChunk sends.
MaxChunkSends == 1

ChunkCellValues ==
    {UnclaimedCell} \cup {AcquiredCell(UnclaimedCell, pid, 1) : pid \in {"1", LongId, HugeId}}

ChunkGrids ==
    LET lead == {GridCellOrder[i] : i \in 1..MaxChunkCells}
    IN  {[c \in GridCells |-> IF c \in lead THEN h[c] ELSE r] :
            h \in [lead -> ChunkCellValues], r \in ChunkCellValues}

\* The delta of send_delta_snapshot for a grid of any dimensions.
GridDelta(g, base) == [c \in {d \in DOMAIN g : base[d] # g[d]} |-> g[c]]

\* The concatenation of the sequences f[1], ..., f[n].
RECURSIVE Concat(_, _)
Concat(f, n) == IF n = 0 THEN <<>> ELSE Concat(f, n - 1) \o f[n]

ChunkInit ==
    /\ grid \in ChunkGrids
    /\ last_grid = [c \in GridCells |-> UnclaimedCell]
    /\ clients = Addrs
    /\ pending_assign = <<>>
    /\ client_last_acked = [a \in Addrs |-> -1]
    /\ snapshot_id = 0
    /\ next_id = Cardinality(Addrs) + 1
    /\ is_game_over = (\A c \in GridCells : grid[c].state = "ACQUIRED")
    /\ pending_acquire_events = <<>>
    /\ now = 0
    /\ player_id = [a \in Addrs |-> None]
    /\ client_grid = [a \in Addrs |-> InitClientGrid]
    /\ latest_snapshot = [a \in Addrs |-> -1]
    /\ snapshot_buffer = [a \in Addrs |-> <<>>]
    /\ chunked_snapshots = [a \in Addrs |-> <<>>]
    /\ game_over = [a \in Addrs |-> FALSE]
    /\ applier_running = [a \in Addrs |-> TRUE]
    /\ net = {}
    /\ out = <<>>
    /\ processed = <<>>
    /\ acked_cells = [a \in Addrs |-> {}]
    /\ late_cells = [a \in Addrs |-> {}]
    /\ ids_sent = [a \in Addrs |-> {}]
    /\ allocs = [a \in Addrs |-> 0]
    /\ clicks = 0
    /\ last_sent = [a \in Addrs |-> -1]
    /\ ThreadsIdle

\* send_full_snapshot(sock, a)
ChunkSendFull(a) ==
    /\ out' = ChunkedSnapshotMsgs(a, snapshot_id, grid, now, TRUE)
    /\ snapshot_id' = snapshot_id + 1
    /\ UNCHANGED <<grid, last_grid, clients, pending_assign, client_last_acked, next_id,
                   is_game_over, pending_acquire_events, now, clientVars, net, histVars,
                   last_sent>>

\* send_delta_snapshot(sock)
ChunkSendDelta ==
    /\ out' = IF GridDelta(grid, last_grid) = <<>> THEN <<>>
              ELSE Concat([i \in 1..Len(AddrSeq(clients)) |->
                              ChunkedSnapshotMsgs(AddrSeq(clients)[i], snapshot_id,
                                                  GridDelta(grid, last_grid), now, FALSE)],
                          Len(AddrSeq(clients)))
    /\ snapshot_id' = snapshot_id + 1
    /\ UNCHANGED <<grid, last_grid, clients, pending_assign, client_last_acked, next_id,
                   is_game_over, pending_acquire_events, now, clientVars, net, histVars,
                   last_sent>>

ChunkNext ==
    \/ \E a \in Addrs : snapshot_id < MaxChunkSends /\ ChunkSendFull(a) /\ UNCHANGED lockVars
    \/ snapshot_id < MaxChunkSends /\ ChunkSendDelta /\ UNCHANGED lockVars

SpecChunk == ChunkInit /\ [][ChunkNext]_vars

IsPartition(a, input, msgs) ==
    LET idx == {i \in 1..Len(msgs) : msgs[i].addr = a}
        n == Cardinality(idx)
    IN  /\ n >= 1
        /\ \A i \in idx : msgs[i].type \in {"SNAPSHOT", "SNAPSHOT_CHUNK"}
        /\ \A i, j \in idx : msgs[i].snapshot_id = msgs[j].snapshot_id
        /\ \A i \in idx : TotalOf(msgs[i]) = n
        /\ \A k \in 0..(n - 1) : Cardinality({i \in idx : IndexOf(msgs[i]) = k}) = 1
        /\ \A i, j \in idx :
              i # j => DOMAIN msgs[i].grid \cap DOMAIN msgs[j].grid = {}
        /\ UNION {DOMAIN msgs[i].grid : i \in idx} = DOMAIN input
        /\ \A i \in idx : \A c \in DOMAIN msgs[i].grid : msgs[i].grid[c] = input[c]

C23_ChunkPartition ==
    [][/\ \A a \in Addrs : ChunkSendFull(a) => IsPartition(a, grid, out')
       /\ (ChunkSendDelta /\ GridDelta(grid, last_grid) # <<>>) =>
              \A a \in clients : IsPartition(a, GridDelta(grid, last_grid), out')]_vars

\* A delta was sent in three or more chunks, one of them with several cells.
C23_Witness ==
    \E i \in 1..Len(out) :
        /\ ~out[i].is_full
        /\ TotalOf(out[i]) >= 3
        /\ Cardinality(DOMAIN out[i].grid) > 1

(***************************************************************************)
(* C24: chunk reassembly.  In every step in which the client receives a    *)
(* chunk: if the snapshot's id is greater than latest_snapshot and the     *)
(* chunk's index is the last one missing among the chunks stored for that  *)
(* id, exactly one entry is pushed to the render-delay buffer, carrying    *)
(* that id and the union of the cells maps of all chunks of the snapshot;  *)
(* in every other case (a chunk is still missing, or the id is not greater *)
(* than latest_snapshot, as for a duplicate that arrives after the         *)
(* snapshot was pushed) the buffer is unchanged.                           *)
(***************************************************************************)
\* The union of the cells maps of all chunks of the chunked snapshot.
AllChunksGrid ==
    [c \in UNION {DOMAIN ChunkGrid(i) : i \in 0..(TotalChunks - 1)} |->
        ChunkGrid(CHOOSE i \in 0..(TotalChunks - 1) : c \in DOMAIN ChunkGrid(i))[c]]

C24_ChunkReassembly ==
    [][\A a \in SpecAddrs : \A m \in ChunkInputs(a) :
          ClientRecvChunk(a, m, {}) =>
              LET sid == m.snapshot_id
                  stored == IF sid \in DOMAIN chunked_snapshots[a]
                            THEN DOMAIN chunked_snapshots[a][sid] ELSE {}
                  lastMissing == /\ sid > latest_snapshot[a]
                                 /\ stored \cup {m.chunk_index} = 0..(m.total_chunks - 1)
              IN  IF lastMissing
                  THEN snapshot_buffer'[a] =
                           Append(snapshot_buffer[a],
                                  [snapshot_id |-> sid, is_full |-> m.is_full,
                                   grid |-> AllChunksGrid])
                  ELSE snapshot_buffer'[a] = snapshot_buffer[a]]_vars

\* A chunk of snapshot 0 is stored and waits for the others, and a later
\* snapshot, whose chunks have all arrived, is in the buffer.
C24_Witness ==
    \E a \in Addrs :
        /\ 0 \in DOMAIN chunked_snapshots[a]
        /\ \E i \in 1..Len(snapshot_buffer[a]) :
              /\ snapshot_buffer[a][i].snapshot_id > 0
              /\ snapshot_buffer[a][i].grid = AllChunksGrid

(***************************************************************************)
(* C25: ACQUIRE_EVENT is idempotent on the client.  Every receipt of an    *)
(* ACQUIRE_EVENT emits one ACQUIRE_ACK carrying the event's event_id,      *)
(* leaves the event's cell ACQUIRED by the event's owner, with a value     *)
(* that depends on the event alone, and changes no other cell; a receipt   *)
(* in a grid whose cell already holds that value, as it does after the     *)
(* first receipt, leaves the grid unchanged.                               *)
(***************************************************************************)
C25_EventIdempotent ==
    [][\A a \in SpecAddrs : \A m \in EventInputs(a) :
          ClientRecvAcquireEvent(a, m, {}) =>
              LET written == [state |-> "ACQUIRED", owner |-> m.owner,
                              timestamp |-> NoTimestamp]
              IN  /\ out' = <<AcquireAckMsg(a, m.event_id)>>
                  /\ client_grid'[a][m.cell] = written
                  /\ \A c \in Cells \ {m.cell} : client_grid'[a][c] = client_grid[a][c]
                  /\ client_grid[a][m.cell] = written => client_grid' = client_grid]_vars

\* Events for both cells have been received, the last one with event_id 1,
\* after a snapshot had been applied.
C25_Witness ==
    \E a \in Addrs :
        /\ out = <<AcquireAckMsg(a, 1)>>
        /\ \A c \in Cells : client_grid[a][c].timestamp = NoTimestamp
                            /\ client_grid[a][c].state = "ACQUIRED"
        /\ latest_snapshot[a] >= 0
        /\ snapshot_buffer[a] = <<>>

(***************************************************************************)
(* SpecEngineActive: the state engine of SpecEngine with one ACTIVE        *)
(* client, endpoint "a", which has completed the handshake as player "1"   *)
(* and has not acknowledged a snapshot yet, so that accepted requests are  *)
(* broadcast.                                                              *)
(***************************************************************************)
EngineActiveInit ==
    /\ grid = InitGrid
    /\ last_grid = InitGrid
    /\ clients = {"a"}
    /\ pending_assign = <<>>
    /\ client_last_acked = [a \in {"a"} |-> -1]
    /\ snapshot_id = 1
    /\ next_id = 2
    /\ is_game_over = FALSE
    /\ pending_acquire_events = <<>>
    /\ now = 0
    /\ player_id = [a \in Addrs |-> IF a = "a" THEN "1" ELSE None]
    /\ client_grid = [a \in Addrs |-> InitClientGrid]
    /\ latest_snapshot = [a \in Addrs |-> -1]
    /\ snapshot_buffer = [a \in Addrs |-> <<>>]
    /\ chunked_snapshots = [a \in Addrs |-> <<>>]
    /\ game_over = [a \in Addrs |-> FALSE]
    /\ applier_running = [a \in Addrs |-> TRUE]
    /\ net = {}
    /\ out = <<>>
    /\ processed = <<>>
    /\ acked_cells = [a \in Addrs |-> {}]
    /\ late_cells = [a \in Addrs |-> {}]
    /\ ids_sent = [a \in Addrs |-> IF a = "a" THEN {"1"} ELSE {}]
    /\ allocs = [a \in Addrs |-> IF a = "a" THEN 1 ELSE 0]
    /\ clicks = 0
    /\ last_sent = [a \in Addrs |-> -1]
    /\ ThreadsIdle

SpecEngineActive == EngineActiveInit /\ [][EngineNext]_vars

(***************************************************************************)
(* C26: a rejected ACQUIRE_REQ, one whose cell is outside the grid or      *)
(* whose cell is ACQUIRED with a stored timestamp that the request's       *)
(* timestamp is not strictly smaller than, leaves the grid,                *)
(* pending_acquire_events, snapshot_id, the baseline and is_game_over      *)
(* unchanged, and no datagram is sent.                                     *)
(***************************************************************************)
C26_RejectIsNoOp ==
    [][LET r == processed'[Len(processed')]
       IN  (\/ r.cell \notin Cells
            \/ /\ grid[r.cell].state = "ACQUIRED"
               /\ ~(r.timestamp < grid[r.cell].timestamp))
           => /\ grid' = grid
              /\ pending_acquire_events' = pending_acquire_events
              /\ snapshot_id' = snapshot_id
              /\ last_grid' = last_grid
              /\ is_game_over' = is_game_over
              /\ out' = <<>>]_vars

\* A request was accepted and broadcast, then a request for the same cell
\* with a larger timestamp and a request for a cell outside the grid were
\* handled: one pending event, nothing sent by the last step.
C26_Witness ==
    /\ Len(processed) = 3
    /\ processed[1].cell = <<0, 0>> /\ processed[1].timestamp = 1
    /\ processed[2].cell = <<0, 0>> /\ processed[2].timestamp = 2
    /\ processed[3].cell = OutOfGrid
    /\ grid[<<0, 0>>].owner = processed[1].id
    /\ Cardinality(DOMAIN pending_acquire_events) = 1
    /\ out = <<>>

(***************************************************************************)
(* Framing: build_packet and parse_packet.  A packet is described by what  *)
(* parse_packet reads of it: the number of header bytes present, the       *)
(* protocol id and version fields, the payload length field and the number *)
(* of payload bytes that follow the header, whether the CRC field equals   *)
(* the CRC32 of header and payload, and what the payload bytes are: the    *)
(* JSON object of a message, the JSON value null, or no JSON at all.       *)
(***************************************************************************)
\* constants.py: PROTOCOL_ID, VERSION
PROTOCOL_ID == "MLSP"
VERSION == 1

\* build_packet for message m, whose payload takes n bytes.
BuildPacket(m, n) ==
    [header_bytes |-> HEADER_SIZE, protocol_id |-> PROTOCOL_ID, version |-> VERSION,
     payload_len |-> n, payload_bytes |-> n, crc |-> "crc32", json |-> "object",
     msg |-> m]

\* The ways a datagram can differ from what build_packet produces.
Flaws == {"short", "protocol", "version", "truncated", "crc", "json"}

Damaged(p, f) ==
    CASE f = "short" -> [p EXCEPT !.header_bytes = HEADER_SIZE - 1]
      [] f = "protocol" -> [p EXCEPT !.protocol_id = "PLSM"]
      [] f = "version" -> [p EXCEPT !.version = VERSION + 1]
      [] f = "truncated" -> [p EXCEPT !.payload_bytes = p.payload_len - 1]
      [] f = "crc" -> [p EXCEPT !.crc = "other"]
      [] f = "json" -> [p EXCEPT !.json = "none"]
      [] f = "null" -> [p EXCEPT !.json = "null"]
      [] OTHER -> p

\* parse_packet's result when a check fails: (None, None, None, None, None).
\* data is <<>> for None and <<payload>> for a decoded payload.
ParseFailed == [msg_type |-> None, data |-> <<>>]

\* Mutation of ParsePacket: the CRC is not compared.
ParsePacketNoCrc(p) ==
    IF p.header_bytes < HEADER_SIZE THEN ParseFailed
    ELSE IF p.version # VERSION THEN ParseFailed
    ELSE IF p.protocol_id # PROTOCOL_ID THEN ParseFailed
    ELSE IF p.payload_bytes < p.payload_len THEN ParseFailed
    ELSE IF p.json = "none" THEN ParseFailed
    ELSE [msg_type |-> p.msg.type, data |-> IF p.json = "null" THEN <<>> ELSE <<p.msg>>]

\* parse_packet
ParsePacket(p) ==
    IF p.header_bytes < HEADER_SIZE THEN ParseFailed
    ELSE IF p.version # VERSION THEN ParseFailed
    ELSE IF p.protocol_id # PROTOCOL_ID THEN ParseFailed
    ELSE IF p.payload_bytes < p.payload_len THEN ParseFailed
    ELSE IF p.crc # "crc32" THEN ParseFailed
    ELSE IF p.json = "none" THEN ParseFailed
    ELSE [msg_type |-> p.msg.type, data |-> IF p.json = "null" THEN <<>> ELSE <<p.msg>>]

\* server.py receiver: one datagram from recvfrom.
ServerReceive(p, base) ==
    IF ParsePacket(p).data = <<>>
    THEN /\ Send(base, <<>>)
         /\ UNCHANGED <<serverVars, clientVars, histVars>>
    ELSE LET m == ParsePacket(p).data[1]
         IN  \/ ServerRecvInit(m, base)
             \/ ServerRecvAcquireReq(m, base)
             \/ ServerRecvNack(m, base)
             \/ ServerRecvAssignIdAck(m, base)
             \/ ServerRecvAcquireAck(m, base)
             \/ ServerRecvSnapshotAck(m, base)

\* client.py receiver: one datagram from recvfrom.
ClientReceive(a, p, base) ==
    IF ParsePacket(p).data = <<>>
    THEN /\ Send(base, <<>>)
         /\ UNCHANGED <<serverVars, clientVars, histVars>>
    ELSE LET m == ParsePacket(p).data[1]
         IN  \/ ClientRecvAssignId(a, m, base)
             \/ ClientRecvSnapshot(a, m, base)
             \/ ClientRecvChunk(a, m, base)
             \/ ClientRecvGameOver(a, m, base)
             \/ ClientRecvAcquireEvent(a, m, base)

(***************************************************************************)
(* SpecDecode: the receivers of the server and of the client at endpoint   *)
(* "a" fed with datagrams as recvfrom returns them: packets of every       *)
(* message type, as built by build_packet or with one of the flaws.        *)
(***************************************************************************)
\* The number of payload bytes of the packets of SpecDecode.
DecodePayloadLen == Digits(MAX_PACKET_BYTES)

ServerDecodeMsgs(a) ==
    {AssignIdAckMsg(a), SnapshotAckMsg(a, 0), SnapshotNackMsg(a, 0)}
        \cup {AcquireReqMsg(a, "1", CellOrder[1], 1)}
        \cup {AcquireAckMsg(a, e) : e \in DOMAIN pending_acquire_events}

ClientDecodeMsgs(a) ==
    {AssignIdMsg(a, pid) : pid \in ids_sent[a]}
        \cup {SnapshotMsg(a, 0, FALSE, RxDelta), GameOverInput(a)}
        \cup {AcquireEventMsg(a, CellOrder[1], "1", 0)}

DecodeNext ==
    \/ \E a \in SpecAddrs, f \in Flaws \cup {"null", "intact"} :
          /\ snapshot_id < MaxSnapshotId
          /\ a \in DOMAIN pending_assign \/ next_id <= MaxIds
          /\ a \notin clients
          /\ ServerReceive(Damaged(BuildPacket(InitMsg(a), DecodePayloadLen), f), {}) /\ UNCHANGED lockVars
    \/ \E a \in SpecAddrs, f \in Flaws \cup {"null", "intact"} :
          \E m \in ServerDecodeMsgs(a) :
             /\ m.type = "SNAPSHOT_NACK" => snapshot_id < MaxSnapshotId
             /\ ServerReceive(Damaged(BuildPacket(m, DecodePayloadLen), f), {}) /\ UNCHANGED lockVars
    \/ \E a \in SpecAddrs, f \in Flaws \cup {"null", "intact"} :
          \E m \in ClientDecodeMsgs(a) :
             ClientReceive(a, Damaged(BuildPacket(m, DecodePayloadLen), f), {}) /\ UNCHANGED lockVars

SpecDecode == Init /\ [][DecodeNext]_vars

(***************************************************************************)
(* C27: a datagram that fails a decoding check (shorter than the header,   *)
(* wrong protocol id, wrong version, fewer payload bytes than the payload  *)
(* length, CRC mismatch, payload not JSON) is dropped silently: whatever   *)
(* its message type, the step in which the server or the client receives   *)
(* it changes no server or client state and emits no datagram.             *)
(***************************************************************************)
FailsDecoding(p) ==
    \/ p.header_bytes < HEADER_SIZE
    \/ p.protocol_id # PROTOCOL_ID
    \/ p.version # VERSION
    \/ p.payload_bytes < p.payload_len
    \/ p.crc # "crc32"
    \/ p.json = "none"

C27_DecodeFailureDropped ==
    [][\/ UNCHANGED <<serverVars, clientVars>> /\ out' = <<>>
       \/ \A a \in SpecAddrs, f \in Flaws :
             \A m \in {InitMsg(a)} \cup ServerDecodeMsgs(a) \cup ClientDecodeMsgs(a) :
                LET p == Damaged(BuildPacket(m, DecodePayloadLen), f)
                IN  ~(FailsDecoding(p) /\ (ServerReceive(p, {}) \/ ClientReceive(a, p, {})))]_vars

\* The server has an ACTIVE client and a pending event, the client has its
\* player id and a buffered snapshot, and the last step sent nothing.
C27_Witness ==
    /\ "a" \in clients
    /\ pending_acquire_events # <<>>
    /\ player_id["a"] # None
    /\ snapshot_buffer["a"] # <<>>
    /\ out = <<>>

(***************************************************************************)
(* SpecLock: the five server threads statement by statement.  pc[t].at is  *)
(* the statement thread t executes next and pc[t].msg the datagram the     *)
(* receiver has parsed.  A "with lock:" block is two steps: the thread     *)
(* takes the free lock, then runs the block and releases the lock.  The    *)
(* statements outside any "with lock:" run whoever holds the lock:         *)
(*   receiver, MSG_INIT: send_assign_id and send_full_snapshot up to its   *)
(*     send ("init_send"), then snapshot_id += 1 ("init_incr");            *)
(*   update_last_grid_when_safe: the test ("check") and the copy           *)
(*     ("write");                                                          *)
(*   resend_acquire_events: the scan ("scan").                             *)
(* The datagrams are those of SpecServer, from endpoint "a"; a delayed     *)
(* INIT may arrive after the endpoint became ACTIVE.                       *)
(***************************************************************************)
MaxLockSnapshotId == 3

\* Thread t goes to statement l, holding datagram m.
Goto(t, l, m) == pc' = [pc EXCEPT ![t] = [at |-> l, msg |-> m]]

\* "with lock:" entered by idle thread t, which goes to statement l.
Acquire(t, l, m) ==
    /\ lock = None
    /\ pc[t].at = "idle"
    /\ lock' = t
    /\ Goto(t, l, m)
    /\ UNCHANGED <<serverVars, clientVars, net, out, histVars, last_sent, emitted>>

\* The end of a "with lock:" block of thread t, which goes to statement l.
Release(t, l, m) ==
    /\ lock' = None
    /\ Goto(t, l, m)

\* emitted once the datagrams msgs have been sent: what one call of
\* send_full_snapshot or send_delta_snapshot sends is one emission.
EmittedAfter(msgs) ==
    LET ids == {msgs[i].snapshot_id : i \in {j \in 1..Len(msgs) : msgs[j].type = "SNAPSHOT"}}
    IN  IF ids = {} THEN emitted ELSE Append(emitted, CHOOSE k \in ids : TRUE)

\* The datagrams the receiver can get from endpoint a.
LockInputs(a) ==
    (IF snapshot_id < MaxLockSnapshotId /\ (a \in DOMAIN pending_assign \/ next_id <= MaxIds)
     THEN {InitMsg(a)} ELSE {})
    \cup {AssignIdAckMsg(a) : pid \in ids_sent[a]}
    \cup {SnapshotAckMsg(a, k) : k \in (IF ids_sent[a] # {} THEN {0, last_sent[a]} \ {-1} ELSE {})}
    \cup {AcquireReqMsg(a, pid, CellOrder[1], 1) : pid \in ids_sent[a]}
    \cup {AcquireAckMsg(a, e) : e \in DOMAIN pending_acquire_events}
    \cup (IF snapshot_id < MaxLockSnapshotId /\ last_sent[a] >= 0
          THEN {SnapshotNackMsg(a, last_sent[a])} ELSE {})

\* receiver: recvfrom and parse_packet returned datagram m; every branch
\* starts with "with lock:".
ReceiverLock(m) ==
    Acquire("receiver", IF m.type = "INIT" THEN "init_alloc" ELSE "handle", m)

\* receiver, MSG_INIT, the "with lock:" block: allocate or re-use the id.
ReceiverInitAlloc ==
    /\ lock = "receiver"
    /\ pc["receiver"].at = "init_alloc"
    /\ LET a == pc["receiver"].msg.addr
           known == a \in DOMAIN pending_assign
       IN  /\ pending_assign' = IF known THEN pending_assign
                                ELSE pending_assign @@ (a :> Str(next_id))
           /\ next_id' = IF known THEN next_id ELSE next_id + 1
           /\ allocs' = [allocs EXCEPT ![a] = IF known THEN @ ELSE @ + 1]
    /\ Release("receiver", "init_send", pc["receiver"].msg)
    /\ UNCHANGED <<grid, last_grid, clients, client_last_acked, snapshot_id, is_game_over,
                   pending_acquire_events, now, clientVars, net, out, last_sent,
                   processed, acked_cells, late_cells, ids_sent, clicks, emitted>>

\* receiver, MSG_INIT, after the block: send_assign_id, then
\* send_full_snapshot reads grid and snapshot_id and sends.
ReceiverInitSend ==
    /\ pc["receiver"].at = "init_send"
    /\ LET a == pc["receiver"].msg.addr
       IN  /\ Send({}, <<AssignIdMsg(a, pending_assign[a]),
                         SnapshotMsg(a, snapshot_id, TRUE, grid)>>)
           /\ ids_sent' = [ids_sent EXCEPT ![a] = @ \cup {pending_assign[a]}]
           /\ late_cells' = [late_cells EXCEPT ![a] = {}]
    /\ emitted' = Append(emitted, snapshot_id)
    /\ Goto("receiver", "init_incr", pc["receiver"].msg)
    /\ UNCHANGED <<serverVars, clientVars, processed, acked_cells, allocs, clicks, lock>>

\* receiver, MSG_INIT: the last statement of send_full_snapshot.
ReceiverInitIncr ==
    /\ pc["receiver"].at = "init_incr"
    /\ snapshot_id' = snapshot_id + 1
    /\ Goto("receiver", "idle", NoMsg)
    /\ UNCHANGED <<grid, last_grid, clients, pending_assign, client_last_acked, next_id,
                   is_game_over, pending_acquire_events, now, clientVars, net, out,
                   histVars, last_sent, lock, emitted>>

\* receiver, any other message type: the "with lock:" block is the whole
\* handler, the receive action of the datagram's type; this is its end.
ReceiverHandles ==
    /\ lock = "receiver"
    /\ pc["receiver"].at = "handle"
    /\ Release("receiver", "idle", NoMsg)
    /\ emitted' = EmittedAfter(out')

\* broadcaster: "if is_game_over: break", then "with lock:".
BroadcasterLock ==
    /\ ~is_game_over
    /\ snapshot_id < MaxLockSnapshotId
    /\ Acquire("broadcaster", "tick", NoMsg)

\* broadcaster: send_delta_snapshot inside the block.
BroadcasterTick ==
    /\ lock = "broadcaster"
    /\ pc["broadcaster"].at = "tick"
    /\ net = {}
    /\ Broadcaster
    /\ Release("broadcaster", "idle", NoMsg)
    /\ emitted' = EmittedAfter(out')

\* resend_assign_id: "with lock:".
ResendAssignIdLock ==
    /\ pc["resend_assign_id"].at = "idle"
    /\ Acquire("resend_assign_id", "scan", NoMsg)

\* resend_assign_id: the block, when the timer of pending endpoint a expired.
ResendAssignIdScan(a) ==
    /\ lock = "resend_assign_id"
    /\ pc["resend_assign_id"].at = "scan"
    /\ net = {}
    /\ ResendAssignId(a)
    /\ Release("resend_assign_id", "idle", NoMsg)
    /\ UNCHANGED emitted

\* resend_assign_id: the block, when no timer expired.
ResendAssignIdNone ==
    /\ lock = "resend_assign_id"
    /\ pc["resend_assign_id"].at = "scan"
    /\ Release("resend_assign_id", "idle", NoMsg)
    /\ UNCHANGED <<serverVars, clientVars, net, out, histVars, last_sent, emitted>>

\* update_last_grid_when_safe: time.sleep(0.01) returns.
AdvancerWake ==
    /\ pc["update_last_grid_when_safe"].at = "idle"
    /\ Goto("update_last_grid_when_safe", "check", NoMsg)
    /\ UNCHANGED <<serverVars, clientVars, net, out, histVars, last_sent, lock, emitted>>

\* update_last_grid_when_safe: "if not clients", min_acked and the test.
AdvancerCheck ==
    /\ pc["update_last_grid_when_safe"].at = "check"
    /\ Goto("update_last_grid_when_safe", IF SafeToAdvance THEN "write" ELSE "idle", NoMsg)
    /\ UNCHANGED <<serverVars, clientVars, net, out, histVars, last_sent, lock, emitted>>

\* update_last_grid_when_safe: last_grid = grid.copy()
AdvancerWrite ==
    /\ pc["update_last_grid_when_safe"].at = "write"
    /\ last_grid' = grid
    /\ Goto("update_last_grid_when_safe", "idle", NoMsg)
    /\ UNCHANGED <<grid, clients, pending_assign, client_last_acked, snapshot_id, next_id,
                   is_game_over, pending_acquire_events, now, clientVars, net, out,
                   histVars, last_sent, lock, emitted>>

\* resend_acquire_events: time.sleep(0.1) returns.
ResendEventsWake ==
    /\ pc["resend_acquire_events"].at = "idle"
    /\ Goto("resend_acquire_events", "scan", NoMsg)
    /\ UNCHANGED <<serverVars, clientVars, net, out, histVars, last_sent, lock, emitted>>

\* resend_acquire_events: the scan finds the ack bit of (e, a) false.
ResendEventsScan(e, a) ==
    /\ pc["resend_acquire_events"].at = "scan"
    /\ net = {}
    /\ ResendAcquireEvent(e, a)
    /\ Goto("resend_acquire_events", "idle", NoMsg)
    /\ UNCHANGED <<lock, emitted>>

\* resend_acquire_events: the scan finds no false ack bit.
ResendEventsNone ==
    /\ pc["resend_acquire_events"].at = "scan"
    /\ Unacked = {}
    /\ Goto("resend_acquire_events", "idle", NoMsg)
    /\ UNCHANGED <<serverVars, clientVars, net, out, histVars, last_sent, lock, emitted>>

LockNext ==
    \/ \E a \in SpecAddrs : \E m \in LockInputs(a) : ReceiverLock(m)
    \/ ReceiverInitAlloc
    \/ ReceiverInitSend
    \/ ReceiverInitIncr
    \/ ServerRecvAcquireReq(pc["receiver"].msg, {}) /\ ReceiverHandles
    \/ ServerRecvNack(pc["receiver"].msg, {}) /\ ReceiverHandles
    \/ ServerRecvAssignIdAck(pc["receiver"].msg, {}) /\ ReceiverHandles
    \/ ServerRecvAcquireAck(pc["receiver"].msg, {}) /\ ReceiverHandles
    \/ ServerRecvSnapshotAck(pc["receiver"].msg, {}) /\ ReceiverHandles
    \/ BroadcasterLock
    \/ BroadcasterTick
    \/ ResendAssignIdLock
    \/ \E a \in Addrs : ResendAssignIdScan(a)
    \/ ResendAssignIdNone
    \/ AdvancerWake
    \/ AdvancerCheck
    \/ AdvancerWrite
    \/ ResendEventsWake
    \/ \E e \in DOMAIN pending_acquire_events, a \in Addrs : ResendEventsScan(e, a)
    \/ ResendEventsNone
    \/ \E m \in net : Lose(m) /\ UNCHANGED lockVars

SpecLock == Init /\ [][LockNext]_vars

(***************************************************************************)
(* C28, C29: lock discipline and snapshot_id ordering.                     *)
(***************************************************************************)
\* C28: every read or write of grid, clients, pending_assign,
\* client_last_acked, pending_acquire_events, last_grid and snapshot_id by a
\* server thread happens while that thread holds the lock: a thread that is
\* at a statement of an operation (each of them reads or writes one of
\* these) is the holder of the lock.
C28_LockDiscipline ==
    \A t \in Threads : pc[t].at # "idle" => lock = t

\* C29: no two snapshot emissions carry the same snapshot_id and the ids
\* never go down: the ids of the emissions, in the order they were sent,
\* increase strictly.
C29_SnapshotIdsUnique ==
    \A i, j \in 1..Len(emitted) : i < j => emitted[i] < emitted[j]

(***************************************************************************)
(* C30: what a SNAPSHOT_ACK covers.                                        *)
(***************************************************************************)
\* C30: whenever the client emits SNAPSHOT_ACK(k) it has received every
\* chunk of snapshot k: after the step that sends the ack, k is the complete
\* snapshot the client took last (latest_snapshot, set when the complete
\* cells map is pushed to snapshot_buffer).
C30_AckCoversSnapshot ==
    [][\A i \in 1..Len(out') :
          out'[i].type = "SNAPSHOT_ACK" =>
              latest_snapshot'[out'[i].addr] = out'[i].snapshot_id]_vars

(***************************************************************************)
(* SpecShutdown: the end of a game, statement by statement as in SpecLock. *)
(* It starts where endpoint "a" is ACTIVE as player "1", the second cell   *)
(* of the grid is ACQUIRED by it and its event acknowledged, and the first *)
(* cell is still UNCLAIMED: the next accepted request fills the grid.  The *)
(* broadcaster's loop is three statements: the test of is_game_over        *)
(* ("idle"), "with lock:" ("enter") and send_delta_snapshot ("tick"); it   *)
(* is "done" after the break.  update_last_grid_when_safe and              *)
(* resend_acquire_events are "while True:" loops without break or return.  *)
(***************************************************************************)
ShutdownInit ==
    /\ grid = [InitGrid EXCEPT ![CellOrder[2]] = AcquiredCell(UnclaimedCell, "1", 1)]
    /\ last_grid = InitGrid
    /\ clients = {"a"}
    /\ pending_assign = <<>>
    /\ client_last_acked = [a \in {"a"} |-> -1]
    /\ snapshot_id = 1
    /\ next_id = 2
    /\ is_game_over = FALSE
    /\ pending_acquire_events = <<>>
    /\ now = 0
    /\ player_id = [a \in Addrs |-> IF a = "a" THEN "1" ELSE None]
    /\ client_grid = [a \in Addrs |-> InitClientGrid]
    /\ latest_snapshot = [a \in Addrs |-> -1]
    /\ snapshot_buffer = [a \in Addrs |-> <<>>]
    /\ chunked_snapshots = [a \in Addrs |-> <<>>]
    /\ game_over = [a \in Addrs |-> FALSE]
    /\ applier_running = [a \in Addrs |-> TRUE]
    /\ net = {}
    /\ out = <<>>
    /\ processed = <<>>
    /\ acked_cells = [a \in Addrs |-> {}]
    /\ late_cells = [a \in Addrs |-> {}]
    /\ ids_sent = [a \in Addrs |-> IF a = "a" THEN {"1"} ELSE {}]
    /\ allocs = [a \in Addrs |-> IF a = "a" THEN 1 ELSE 0]
    /\ clicks = 0
    /\ last_sent = [a \in Addrs |-> -1]
    /\ ThreadsIdle

\* The datagrams the receiver can get from ACTIVE endpoint a.
ShutdownInputs(a) ==
    {AcquireReqMsg(a, pid, CellOrder[1], 1) : pid \in ids_sent[a]}
    \cup {AcquireAckMsg(a, e) : e \in DOMAIN pending_acquire_events}
    \cup {SnapshotAckMsg(a, k) : k \in {0, last_sent[a]} \ {-1}}

\* broadcaster: "if is_game_over: break" finds the flag clear.
BroadcasterCheck ==
    /\ pc["broadcaster"].at = "idle"
    /\ ~is_game_over
    /\ snapshot_id < MaxLockSnapshotId
    /\ Goto("broadcaster", "enter", NoMsg)
    /\ UNCHANGED <<serverVars, clientVars, net, out, histVars, last_sent, lock, emitted>>

\* broadcaster: "if is_game_over: break" finds the flag set.
BroadcasterBreak ==
    /\ pc["broadcaster"].at = "idle"
    /\ is_game_over
    /\ Goto("broadcaster", "done", NoMsg)
    /\ UNCHANGED <<serverVars, clientVars, net, out, histVars, last_sent, lock, emitted>>

\* broadcaster: "with lock:", entered once the lock is free.
BroadcasterEnter ==
    /\ pc["broadcaster"].at = "enter"
    /\ lock = None
    /\ lock' = "broadcaster"
    /\ Goto("broadcaster", "tick", NoMsg)
    /\ UNCHANGED <<serverVars, clientVars, net, out, histVars, last_sent, emitted>>

\* broadcaster: send_delta_snapshot inside the block, and the block's end.
BroadcasterDelta ==
    /\ lock = "broadcaster"
    /\ pc["broadcaster"].at = "tick"
    /\ net = {}
    /\ Send(net, DeltaMsgs(grid, last_grid, snapshot_id))
    /\ snapshot_id' = snapshot_id + 1
    /\ Release("broadcaster", "idle", NoMsg)
    /\ emitted' = EmittedAfter(out')
    /\ UNCHANGED <<grid, last_grid, clients, pending_assign, client_last_acked, next_id,
                   is_game_over, pending_acquire_events, now, clientVars, histVars>>

ShutdownNext ==
    \/ \E a \in SpecAddrs : \E m \in ShutdownInputs(a) : ReceiverLock(m)
    \/ ServerRecvAcquireReq(pc["receiver"].msg, {}) /\ ReceiverHandles
    \/ ServerRecvAcquireAck(pc["receiver"].msg, {}) /\ ReceiverHandles
    \/ ServerRecvSnapshotAck(pc["receiver"].msg, {}) /\ ReceiverHandles
    \/ BroadcasterCheck
    \/ BroadcasterBreak
    \/ BroadcasterEnter
    \/ BroadcasterDelta
    \/ AdvancerWake
    \/ AdvancerCheck
    \/ AdvancerWrite
    \/ ResendEventsWake
    \/ \E e \in DOMAIN pending_acquire_events, a \in Addrs : ResendEventsScan(e, a)
    \/ ResendEventsNone
    \/ \E m \in net : Lose(m) /\ UNCHANGED lockVars

SpecShutdown == ShutdownInit /\ [][ShutdownNext]_vars

(***************************************************************************)
(* C31: server shutdown.                                                   *)
(***************************************************************************)
\* C31: once is_game_over is set the broadcaster performs no further tick:
\* no step taken with is_game_over set carries the broadcaster through
\* send_delta_snapshot.
C31_NoTickAfterGameOver ==
    [][is_game_over =>
          ~(pc["broadcaster"].at = "tick" /\ pc'["broadcaster"].at = "idle")]_vars

(***************************************************************************)
(* C32: client drain on GAME_OVER.                                         *)
(***************************************************************************)
\* C32: every snapshot pushed to snapshot_buffer is eventually applied, also
\* one pushed after GAME_OVER: the applier has not stopped while an entry is
\* in the buffer (a stopped applier never runs again, so an entry buffered
\* then stays unapplied).
C32_BufferHasApplier ==
    \A a \in SpecAddrs : snapshot_buffer[a] # <<>> => applier_running[a]

(***************************************************************************)
(* C33: finality of the result.                                            *)
(***************************************************************************)
\* C33: once the game is over no ACQUIRE_REQ changes the authoritative grid,
\* and a GAME_OVER sent from then on carries the winner and scoreboard of
\* that grid.
C33_ResultIsFinal ==
    [][is_game_over =>
          /\ grid' = grid
          /\ \A i \in 1..Len(out') :
                out'[i].type = "GAME_OVER" =>
                    /\ out'[i].winner = Winner(grid)
                    /\ out'[i].scoreboard = Counts(grid)]_vars

(***************************************************************************)
(* SpecRobust: the server's receiver fed with datagrams that pass every    *)
(* check of parse_packet, with the payload its message type needs or with  *)
(* another JSON value.  The receiver reads the payload's fields inside the *)
(* branch of the message type; only recvfrom is inside a try, so an        *)
(* exception raised by a branch leaves the "with lock:" block (which       *)
(* releases the lock) and ends the receiver thread ("dead").               *)
(***************************************************************************)
\* The payload {} sent as ACQUIRE_ACK and as SNAPSHOT_ACK.
AcquireAckNoId(a) == [type |-> "ACQUIRE_ACK", addr |-> a]
SnapshotAckNoId(a) == [type |-> "SNAPSHOT_ACK", addr |-> a]

\* The payload {} sent as ACQUIRE_REQ: msg.get yields cell (), id None and
\* timestamp 0.
AcquireReqEmpty(a) == AcquireReqMsg(a, None, <<>>, 0)

\* The payload [] (a JSON value that is not an object) sent with type t.
NotObject(a, t) == [type |-> t, addr |-> a, value |-> "[]"]

\* The message types whose branch reads the payload.
ReadsPayload == {"ACQUIRE_REQ", "ACQUIRE_ACK", "SNAPSHOT_ACK"}

\* The branch of m's message type raises: msg.get on a list
\* (AttributeError), data[...] on a list (TypeError), data["event_id"] or
\* data["snapshot_id"] on an object without the key (KeyError).
Raises(m) ==
    \/ "value" \in DOMAIN m /\ m.type \in ReadsPayload
    \/ m.type = "ACQUIRE_ACK" /\ "event_id" \notin DOMAIN m
    \/ m.type = "SNAPSHOT_ACK" /\ "snapshot_id" \notin DOMAIN m

\* receiver: one datagram whose payload parse_packet returned as data m.
ReceiverStep(m, base) ==
    /\ pc["receiver"].at # "dead"
    /\ IF Raises(m)
       THEN /\ Goto("receiver", "dead", NoMsg)
            /\ Send(base, <<>>)
            /\ UNCHANGED <<serverVars, clientVars, histVars, lock, emitted>>
       ELSE /\ \/ ServerRecvInit(m, base)
               \/ ServerRecvAcquireReq(m, base)
               \/ ServerRecvNack(m, base)
               \/ ServerRecvAssignIdAck(m, base)
               \/ ServerRecvAcquireAck(m, base)
               \/ ServerRecvSnapshotAck(m, base)
            /\ UNCHANGED lockVars

\* Payloads that lack what their message type needs.
MalformedInputs(a) ==
    {AcquireAckNoId(a), SnapshotAckNoId(a), AcquireReqEmpty(a)}
        \cup {NotObject(a, t) : t \in ReadsPayload \cup {"ASSIGN_ID_ACK"}}

RobustNext ==
    \/ \E a \in SpecAddrs : \E m \in {InitMsg(a), NotObject(a, "INIT")} :
          /\ snapshot_id < MaxSnapshotId
          /\ a \in DOMAIN pending_assign \/ next_id <= MaxIds
          /\ ReceiverStep(m, {})
    \/ \E a \in SpecAddrs : \E m \in {SnapshotNackMsg(a, 0), NotObject(a, "SNAPSHOT_NACK")} :
          /\ snapshot_id < MaxSnapshotId
          /\ ReceiverStep(m, {})
    \/ \E a \in SpecAddrs : \E m \in ServerDecodeMsgs(a) :
          /\ m.type # "SNAPSHOT_NACK"
          /\ ReceiverStep(m, {})
    \/ \E a \in SpecAddrs : \E m \in MalformedInputs(a) : ReceiverStep(m, {})

SpecRobust == Init /\ [][RobustNext]_vars

(***************************************************************************)
(* C34: receiver robustness.                                               *)
(***************************************************************************)
\* C34: after any datagram that passes the framing checks, whatever its
\* JSON payload, the server's receiver loop is still running.
C34_ReceiverSurvives == pc["receiver"].at # "dead"

====
